---------------------------- MODULE Spec2Model ----------------------------
(***************************************************************************)
(* ZKPulse (trustflowZK): the authentication / authorization layer of the  *)
(* Express back end (POST /api/login, the authenticateToken and            *)
(* protectCustomerData middleware, POST /api/register-pin,                 *)
(* GET /api/check-pin/:customerId, GET /api/transactions) and the React    *)
(* front end that drives it (loginUser, authenticatedFetch,                *)
(* handleRegisterPin).                                                     *)
(*                                                                         *)
(* Node runs one request handler at a time and none of the handlers        *)
(* modelled here awaits, so one request is one atomic step.  The front     *)
(* end suspends at every await, so one step of it runs from one await to   *)
(* the next.                                                               *)
(***************************************************************************)
EXTENDS Integers, Sequences, FiniteSets, TLC

VARIABLES
    store,      \* pinRegistryFallback: customerId -> [pinHash, salt]
    now,        \* wall clock, in hours
    issued,     \* the tokens /api/login has signed so far
    last,       \* the request the back end handled last, with its response
    ls,         \* the browser's localStorage
    app,        \* the state of the App component (its useState cells)
    pc,         \* where the async handler of App is suspended, with its closure
    timer,      \* the pending setTimeout callbacks, by the screen they set
    inflight,   \* the register-pin requests the back end is working on
    mpage       \* the merchant page that is open, with its state

vars == <<store, now, issued, last, ls, app, pc, timer, inflight, mpage>>
appVars == <<ls, app, pc, timer, inflight, mpage>>

---------------------------------------------------------------------------
(* Bounds of the model *)

\* the clock ticks this many times
MaxTicks == 2
\* at most this many of the issued tokens are kept as presentable
MaxTokens == 1

(* Program constants *)

\* JWT_EXPIRY = '24h'
JWT_EXPIRY == 24

JWT_SECRET == "JWT_SECRET"

\* one tick of the modelled clock: half the validity window of a token
StepHours == JWT_EXPIRY \div 2
MaxTime == MaxTicks * StepHours

---------------------------------------------------------------------------
(* simpleHash: 32-bit integers are kept as two 16-bit limbs <<hi, lo>> in  *)
(* two's complement, so that << and & wrap exactly as in JavaScript.       *)

Limb == 65536

\* s.charCodeAt(1) for a one-character string of the alphabet used here
CharCode(ch) ==
    LET digits == "0123456789"
        upper  == "ABCDEFGHIJKLMNOPQRSTUVWXYZ"
        lower  == "abcdefghijklmnopqrstuvwxyz"
        Pos(tab) == CHOOSE i \in 1..Len(tab) : SubSeq(tab, i, i) = ch
        In(tab)  == \E i \in 1..Len(tab) : SubSeq(tab, i, i) = ch
    IN  IF In(digits) THEN 47 + Pos(digits)
        ELSE IF In(upper) THEN 64 + Pos(upper)
        ELSE IF In(lower) THEN 96 + Pos(lower)
        ELSE IF ch = "_" THEN 95
        ELSE IF ch = "-" THEN 45
        ELSE IF ch = "." THEN 46
        ELSE 64

\* hash << 5
Shl5(h) ==
    LET lo32 == h[2] * 32
    IN  << (h[1] * 32 + (lo32 \div Limb)) % Limb, lo32 % Limb >>

\* a - b on 32 bits
Sub32(a, b) ==
    LET lo == a[2] - b[2]
        borrow == IF lo < 0 THEN 1 ELSE 0
    IN  << (a[1] - b[1] - borrow + 2 * Limb) % Limb, (lo + Limb) % Limb >>

\* a + c on 32 bits, c a character code
Add32(a, c) ==
    LET lo == a[2] + c
    IN  << (a[1] + (lo \div Limb)) % Limb, lo % Limb >>

\* Math.abs of a 32-bit integer, as an unsigned magnitude
Abs32(h) ==
    IF h[1] < Limb \div 2 THEN h
    ELSE << (Limb - 1 - h[1] + (IF h[2] = 0 THEN 1 ELSE 0)) % Limb,
            (Limb - h[2]) % Limb >>

HexDigit(d) == SubSeq("0123456789abcdef", d + 1, d + 1)

RECURSIVE Hex(_)
\* n.toString(16) for 0 <= n < 65536
Hex(n) == IF n < 16 THEN HexDigit(n) ELSE Hex(n \div 16) \o HexDigit(n % 16)

RECURSIVE PadStart(_, _)
\* s.padStart(n, '0')
PadStart(s, n) == IF Len(s) >= n THEN s ELSE PadStart("0" \o s, n)

\* m.toString(16) for an unsigned 32-bit magnitude
ToString16(m) ==
    IF m[1] = 0 THEN Hex(m[2]) ELSE Hex(m[1]) \o PadStart(Hex(m[2]), 4)

RECURSIVE HashLoop(_, _, _)
\* the for loop of simpleHash, from index i (1-based) with hash h
HashLoop(s, i, h) ==
    IF i > Len(s) THEN h
    ELSE HashLoop(s, i + 1,
                  Add32(Sub32(Shl5(h), h), CharCode(SubSeq(s, i, i))))

\* simpleHash with hash = ((hash << 5) + hash) + char in its loop
simpleHashPlus(s) ==
    LET RECURSIVE Loop(_, _)
        Loop(i, h) ==
            IF i > Len(s) THEN h
            ELSE Loop(i + 1, Add32(Sub32(Shl5(h), Sub32(<<0, 0>>, h)),
                                   CharCode(SubSeq(s, i, i))))
    IN  "0x" \o PadStart(ToString16(Abs32(Loop(1, <<0, 0>>))), 64)

\* simpleHash(pin) of App.js
simpleHash(s) == "0x" \o PadStart(ToString16(Abs32(HashLoop(s, 1, <<0, 0>>))), 64)

\* simpleHash(pin) of MerchantPageEnhanced: the same loop and the same formatting
MpeSimpleHash(s) ==
    "0x" \o PadStart(ToString16(Abs32(HashLoop(s, 1, <<0, 0>>))), 64)

---------------------------------------------------------------------------
(* Values of the model *)

Customers == {"alice", "bob"}

\* PINs a customer may type: two valid ones, one too short
Pins == {"1234", "4321", "123"}

H1 == simpleHash("1234")
H2 == simpleHash("4321")

\* a falsy field: undefined, or the empty string
Falsy(x) == x = ""

\* what a request may carry as customerId, pinHash, salt
ReqCustomerIds == Customers \cup {""}
ReqHashes == {H1, H2, ""}

\* the bodies a register-pin request may carry: a full one, one with another
\* pinHash and no salt, one without pinHash, one without customerId
ReqBodies ==
    {[customerId |-> c, pinHash |-> H2, salt |-> "s2"] : c \in ReqCustomerIds}
    \cup {[customerId |-> c, pinHash |-> H1, salt |-> ""] : c \in Customers}
    \cup {[customerId |-> c, pinHash |-> "", salt |-> "s1"] : c \in Customers}

Record(h, s) == [pinHash |-> h, salt |-> s]

\* Map.get: the record, or undefined
NoRecord == [absent |-> TRUE]
Get(reg, c) == IF c \in DOMAIN reg THEN reg[c] ELSE NoRecord

\* Map.set
Put(reg, c, r) == [x \in (DOMAIN reg) \cup {c} |-> IF x = c THEN r ELSE reg[x]]

EmptyStore == [x \in {} |-> NoRecord]

---------------------------------------------------------------------------
(* Tokens (jsonwebtoken) *)

NoToken == [absent |-> TRUE]

\* jwt.sign with the validity window doubled
JwtSignLong(c, secret, t) ==
    [customerId |-> c, iat |-> t, exp |-> t + 2 * JWT_EXPIRY, sig |-> secret]

\* jwt.sign({customerId, ...}, secret, {expiresIn}) at time t
JwtSign(c, secret, t) ==
    [customerId |-> c, iat |-> t, exp |-> t + JWT_EXPIRY, sig |-> secret]

\* a string that is no JWT at all
Garbage == [customerId |-> "", iat |-> 0, exp |-> 0, sig |-> "malformed"]

\* a well-formed token for c signed with another key, with an expiry the
\* clock never reaches
Forged(c) ==
    [customerId |-> c, iat |-> 0, exp |-> MaxTime + JWT_EXPIRY + 1,
     sig |-> "attacker-key"]

\* jwt.verify with ignoreExpiration
JwtVerifyLax(token, secret, t) ==
    IF token.sig = "malformed" THEN "JsonWebTokenError"
    ELSE IF token.sig # secret THEN "JsonWebTokenError"
    ELSE "ok"

\* jwt.verify(token, secret) at time t: the error, or "ok"
JwtVerify(token, secret, t) ==
    IF token.sig = "malformed" THEN "JsonWebTokenError"
    ELSE IF token.sig # secret THEN "JsonWebTokenError"
    ELSE IF t >= token.exp THEN "TokenExpiredError"
    ELSE "ok"

---------------------------------------------------------------------------
(* The back end *)

\* authHeader && authHeader.split(' ')[1]; a header is the sequence of its
\* space-separated words, <<>> when the request carries none
HeaderToken(hdr) == IF Len(hdr) >= 2 THEN hdr[2] ELSE NoToken

\* authenticateToken that lets a request without token through
AuthenticateTokenOptional(hdr, t) ==
    LET token == HeaderToken(hdr)
    IN  IF token = NoToken
        THEN [status |-> 200, next |-> TRUE, customerId |-> "", error |-> ""]
        ELSE IF JwtVerify(token, JWT_SECRET, t) # "ok"
        THEN [status |-> 403, next |-> FALSE, customerId |-> "",
              error |-> "Invalid or expired token"]
        ELSE [status |-> 200, next |-> TRUE, customerId |-> token.customerId,
              error |-> ""]

\* authenticateToken that decodes the token without verifying it
AuthenticateTokenDecodeOnly(hdr, t) ==
    LET token == HeaderToken(hdr)
    IN  IF token = NoToken
        THEN [status |-> 401, next |-> FALSE, customerId |-> "",
              error |-> "No authentication token provided"]
        ELSE IF token.sig = "malformed"
        THEN [status |-> 403, next |-> FALSE, customerId |-> "",
              error |-> "Invalid or expired token"]
        ELSE [status |-> 200, next |-> TRUE, customerId |-> token.customerId,
              error |-> ""]

\* authenticateToken with a revocation rule: a token is refused once the record
\* of its subject is no longer the one the registry was provisioned with
AuthenticateTokenRevoking(hdr, t) ==
    LET token == HeaderToken(hdr)
    IN  IF token = NoToken
        THEN [status |-> 401, next |-> FALSE, customerId |-> "",
              error |-> "No authentication token provided"]
        ELSE IF \/ JwtVerify(token, JWT_SECRET, t) # "ok"
                \/ Get(store, token.customerId) # Record(H1, "default_salt")
        THEN [status |-> 403, next |-> FALSE, customerId |-> "",
              error |-> "Invalid or expired token"]
        ELSE [status |-> 200, next |-> TRUE, customerId |-> token.customerId,
              error |-> ""]

\* authenticateToken(req, res, next)
AuthenticateToken(hdr, t) ==
    LET token == HeaderToken(hdr)
    IN  IF token = NoToken
        THEN [status |-> 401, next |-> FALSE, customerId |-> "",
              error |-> "No authentication token provided"]
        ELSE IF JwtVerify(token, JWT_SECRET, t) # "ok"
        THEN [status |-> 403, next |-> FALSE, customerId |-> "",
              error |-> "Invalid or expired token"]
        ELSE [status |-> 200, next |-> TRUE, customerId |-> token.customerId,
              error |-> ""]

\* protectCustomerData(req, res, next): does the request name the caller?
ProtectCustomerData(target, reqCustomerId) == target = reqCustomerId

\* registerPINHash(customerId, pinHash, salt)
RegisterPINHash(reg, c, h, s) == Put(reg, c, Record(h, s))

\* the handler of POST /api/register-pin storing the record before it looks
\* at the fields
RegisterPinHandlerWriteFirst(body, reqCustomerId, reg) ==
    LET written == RegisterPINHash(reg, reqCustomerId, body.pinHash,
                       IF Falsy(body.salt) THEN "default_salt" ELSE body.salt)
    IN  IF Falsy(body.customerId) \/ Falsy(body.pinHash)
        THEN [status |-> 400, store |-> written,
              error |-> "Missing customerId or pinHash"]
        ELSE IF body.customerId # reqCustomerId
        THEN [status |-> 403, store |-> reg,
              error |-> "Access denied: You can only register PIN for your own customer ID"]
        ELSE [status |-> 200, store |-> written, error |-> ""]

\* the handler of POST /api/register-pin that takes the salt of the record the
\* customer already has
RegisterPinHandlerKeepSalt(body, reqCustomerId, reg) ==
    IF Falsy(body.customerId) \/ Falsy(body.pinHash)
    THEN [status |-> 400, store |-> reg,
          error |-> "Missing customerId or pinHash"]
    ELSE IF body.customerId # reqCustomerId
    THEN [status |-> 403, store |-> reg,
          error |-> "Access denied: You can only register PIN for your own customer ID"]
    ELSE [status |-> 200,
          store |-> RegisterPINHash(reg, body.customerId, body.pinHash,
                       IF body.customerId \in DOMAIN reg
                       THEN reg[body.customerId].salt
                       ELSE IF Falsy(body.salt) THEN "default_salt" ELSE body.salt),
          error |-> ""]

\* the handler of POST /api/register-pin that answers success but keeps a
\* record the customer already has
RegisterPinHandlerKeepExisting(body, reqCustomerId, reg) ==
    IF Falsy(body.customerId) \/ Falsy(body.pinHash)
    THEN [status |-> 400, store |-> reg,
          error |-> "Missing customerId or pinHash"]
    ELSE IF body.customerId # reqCustomerId
    THEN [status |-> 403, store |-> reg,
          error |-> "Access denied: You can only register PIN for your own customer ID"]
    ELSE [status |-> 200,
          store |-> IF body.customerId \in DOMAIN reg THEN reg
                    ELSE RegisterPINHash(reg, body.customerId, body.pinHash,
                             IF Falsy(body.salt) THEN "default_salt" ELSE body.salt),
          error |-> ""]

\* the handler of POST /api/register-pin, after both middleware passed
RegisterPinHandler(body, reqCustomerId, reg) ==
    IF Falsy(body.customerId) \/ Falsy(body.pinHash)
    THEN [status |-> 400, store |-> reg,
          error |-> "Missing customerId or pinHash"]
    ELSE IF body.customerId # reqCustomerId
    THEN [status |-> 403, store |-> reg,
          error |-> "Access denied: You can only register PIN for your own customer ID"]
    ELSE [status |-> 200,
          store |-> RegisterPINHash(reg, body.customerId, body.pinHash,
                       IF Falsy(body.salt) THEN "default_salt" ELSE body.salt),
          error |-> ""]

\* app.post('/api/register-pin', authenticateToken, protectCustomerData, handler)
\* without the two identity checks
RegisterPinRouteNoIdor(hdr, body, reg, t) ==
    LET auth == AuthenticateToken(hdr, t)
    IN  IF ~auth.next
        THEN [status |-> auth.status, store |-> reg, error |-> auth.error,
              trace |-> IF auth.status = 401 THEN <<"token-presence">>
                        ELSE <<"token-presence", "token-validity">>]
        ELSE IF Falsy(body.customerId) \/ Falsy(body.pinHash)
        THEN [status |-> 400, store |-> reg,
              error |-> "Missing customerId or pinHash",
              trace |-> <<"token-presence", "token-validity", "handler">>]
        ELSE [status |-> 200,
              store |-> RegisterPINHash(reg, body.customerId, body.pinHash,
                           IF Falsy(body.salt) THEN "default_salt" ELSE body.salt),
              error |-> "",
              trace |-> <<"token-presence", "token-validity", "handler">>]

\* app.post('/api/register-pin', ...) with the identity check ahead of the
\* token verification, made on the decoded but unverified token
RegisterPinRouteIdentityFirst(hdr, body, reg, t) ==
    LET token == HeaderToken(hdr)
        auth == AuthenticateToken(hdr, t)
    IN  IF token = NoToken
        THEN [status |-> 401, store |-> reg, error |-> auth.error,
              trace |-> <<"token-presence">>]
        ELSE IF ~ProtectCustomerData(body.customerId, token.customerId)
        THEN [status |-> 403, store |-> reg, error |-> "Access denied",
              trace |-> <<"token-presence", "identity-match">>]
        ELSE IF ~auth.next
        THEN [status |-> auth.status, store |-> reg, error |-> auth.error,
              trace |-> <<"token-presence", "identity-match", "token-validity">>]
        ELSE LET r == RegisterPinHandler(body, auth.customerId, reg)
             IN  [status |-> r.status, store |-> r.store, error |-> r.error,
                  trace |-> <<"token-presence", "identity-match",
                              "token-validity", "handler">>]

\* app.post('/api/register-pin', authenticateToken, protectCustomerData, handler)
RegisterPinRoute(hdr, body, reg, t) ==
    LET auth == AuthenticateToken(hdr, t)
    IN  IF ~auth.next
        THEN [status |-> auth.status, store |-> reg, error |-> auth.error,
              trace |-> IF auth.status = 401 THEN <<"token-presence">>
                        ELSE <<"token-presence", "token-validity">>]
        ELSE IF ~ProtectCustomerData(body.customerId, auth.customerId)
        THEN [status |-> 403, store |-> reg, error |-> "Access denied",
              trace |-> <<"token-presence", "token-validity", "identity-match">>]
        ELSE LET r == RegisterPinHandler(body, auth.customerId, reg)
             IN  [status |-> r.status, store |-> r.store, error |-> r.error,
                  trace |-> <<"token-presence", "token-validity",
                              "identity-match", "handler">>]

\* app.post('/api/login', ...) that signs a token without looking at the PIN
LoginRouteNoPin(body, reg, t) ==
    IF Falsy(body.customerId)
    THEN [status |-> 400, token |-> NoToken,
          error |-> "customerId is required", message |-> ""]
    ELSE [status |-> 200,
          token |-> JwtSign(body.customerId, JWT_SECRET, t),
          error |-> "", message |-> "Authentication successful"]

\* app.post('/api/login', ...) that looks the customer up before it validates
\* the fields
LoginRouteLookupFirst(body, reg, t) ==
    LET stored == Get(reg, body.customerId)
    IN  IF stored = NoRecord
        THEN [status |-> 401, token |-> NoToken,
              error |-> "Authentication failed",
              message |-> "No PIN registered for this customer. Please register first."]
        ELSE IF Falsy(body.customerId) \/ Falsy(body.pinHash)
        THEN [status |-> 400, token |-> NoToken,
              error |-> "customerId and pinHash are required", message |-> ""]
        ELSE IF stored.pinHash # body.pinHash
        THEN [status |-> 401, token |-> NoToken,
              error |-> "Authentication failed",
              message |-> "Invalid PIN. Authentication failed."]
        ELSE [status |-> 200,
              token |-> JwtSign(body.customerId, JWT_SECRET, t),
              error |-> "", message |-> "Authentication successful"]

\* app.post('/api/login', ...) with the PIN comparison inverted
LoginRouteInverted(body, reg, t) ==
    IF Falsy(body.customerId) \/ Falsy(body.pinHash)
    THEN [status |-> 400, token |-> NoToken,
          error |-> "customerId and pinHash are required", message |-> ""]
    ELSE LET stored == Get(reg, body.customerId)
         IN  IF stored = NoRecord
             THEN [status |-> 401, token |-> NoToken,
                   error |-> "Authentication failed",
                   message |-> "No PIN registered for this customer. Please register first."]
             ELSE IF stored.pinHash = body.pinHash
             THEN [status |-> 401, token |-> NoToken,
                   error |-> "Authentication failed",
                   message |-> "Invalid PIN. Authentication failed."]
             ELSE [status |-> 200,
                   token |-> JwtSign(body.customerId, JWT_SECRET, t),
                   error |-> "", message |-> "Authentication successful"]

\* app.post('/api/login', ...)
LoginRoute(body, reg, t) ==
    IF Falsy(body.customerId) \/ Falsy(body.pinHash)
    THEN [status |-> 400, token |-> NoToken,
          error |-> "customerId and pinHash are required", message |-> ""]
    ELSE LET stored == Get(reg, body.customerId)
         IN  IF stored = NoRecord
             THEN [status |-> 401, token |-> NoToken,
                   error |-> "Authentication failed",
                   message |-> "No PIN registered for this customer. Please register first."]
             ELSE IF stored.pinHash # body.pinHash
             THEN [status |-> 401, token |-> NoToken,
                   error |-> "Authentication failed",
                   message |-> "Invalid PIN. Authentication failed."]
             ELSE [status |-> 200,
                   token |-> JwtSign(body.customerId, JWT_SECRET, t),
                   error |-> "", message |-> "Authentication successful"]

\* app.get('/api/check-pin/:customerId', authenticateToken, protectCustomerData, ...)
CheckPinRoute(hdr, target, reg, t) ==
    LET auth == AuthenticateToken(hdr, t)
    IN  IF ~auth.next
        THEN [status |-> auth.status, registered |-> FALSE, error |-> auth.error,
              trace |-> IF auth.status = 401 THEN <<"token-presence">>
                        ELSE <<"token-presence", "token-validity">>]
        ELSE IF ~ProtectCustomerData(target, auth.customerId)
        THEN [status |-> 403, registered |-> FALSE, error |-> "Access denied",
              trace |-> <<"token-presence", "token-validity", "identity-match">>]
        ELSE [status |-> 200, registered |-> target \in DOMAIN reg, error |-> "",
              trace |-> <<"token-presence", "token-validity",
                          "identity-match", "handler">>]

\* allTransactions: the mock ledger
allTransactions ==
    { [id |-> "tx1", customerId |-> "alice", merchantId |-> "shop"],
      [id |-> "tx2", customerId |-> "bob",   merchantId |-> "shop"],
      [id |-> "tx3", customerId |-> "carol", merchantId |-> "alice"] }

\* app.get('/api/transactions', ...) as it was before the filter was added
TransactionsRouteUnfiltered(hdr, t) ==
    LET auth == AuthenticateToken(hdr, t)
    IN  IF ~auth.next
        THEN [status |-> auth.status, transactions |-> {}, error |-> auth.error,
              trace |-> IF auth.status = 401 THEN <<"token-presence">>
                        ELSE <<"token-presence", "token-validity">>]
        ELSE [status |-> 200, transactions |-> allTransactions, error |-> "",
              trace |-> <<"token-presence", "token-validity", "handler">>]

\* app.get('/api/transactions', authenticateToken, ...)
TransactionsRoute(hdr, t) ==
    LET auth == AuthenticateToken(hdr, t)
    IN  IF ~auth.next
        THEN [status |-> auth.status, transactions |-> {}, error |-> auth.error,
              trace |-> IF auth.status = 401 THEN <<"token-presence">>
                        ELSE <<"token-presence", "token-validity">>]
        ELSE [status |-> 200,
              transactions |-> { tx \in allTransactions :
                                   \/ tx.customerId = auth.customerId
                                   \/ tx.merchantId = auth.customerId },
              error |-> "",
              trace |-> <<"token-presence", "token-validity", "handler">>]

\* app.get('/api/transaction/:txHash', authenticateToken, ...) for the hash of
\* a transaction of the ledger
TransactionRoute(hdr, txHash, t) ==
    LET auth == AuthenticateToken(hdr, t)
        details == CHOOSE tx \in allTransactions : tx.id = txHash
    IN  IF ~auth.next
        THEN [status |-> auth.status, transactions |-> {}, error |-> auth.error,
              trace |-> IF auth.status = 401 THEN <<"token-presence">>
                        ELSE <<"token-presence", "token-validity">>]
        ELSE IF details.customerId # auth.customerId
                /\ details.merchantId # auth.customerId
        THEN [status |-> 403, transactions |-> {},
              error |-> "Access denied: You can only view transactions you are involved in",
              trace |-> <<"token-presence", "token-validity", "handler">>]
        ELSE [status |-> 200, transactions |-> {details}, error |-> "",
              trace |-> <<"token-presence", "token-validity", "handler">>]

\* app.get('/api/recent-payments', authenticateToken, ...): the payments the
\* caller made or received
RecentPaymentsRoute(hdr, t) ==
    LET auth == AuthenticateToken(hdr, t)
    IN  IF ~auth.next
        THEN [status |-> auth.status, payments |-> {}, error |-> auth.error,
              trace |-> IF auth.status = 401 THEN <<"token-presence">>
                        ELSE <<"token-presence", "token-validity">>]
        ELSE [status |-> 200,
              payments |-> { tx \in allTransactions :
                               \/ tx.customerId = auth.customerId
                               \/ tx.merchantId = auth.customerId },
              error |-> "",
              trace |-> <<"token-presence", "token-validity", "handler">>]

\* app.post('/api/gemini-query', authenticateToken, ...): the chat proxy
GeminiQueryRoute(hdr, t) ==
    LET auth == AuthenticateToken(hdr, t)
    IN  IF ~auth.next
        THEN [status |-> auth.status, response |-> "", error |-> auth.error,
              trace |-> IF auth.status = 401 THEN <<"token-presence">>
                        ELSE <<"token-presence", "token-validity">>]
        ELSE [status |-> 200, response |-> "reply", error |-> "",
              trace |-> <<"token-presence", "token-validity", "handler">>]

\* app.post('/api/verify-payment', authenticateToken, ...): the token check,
\* then the verdict of the proof verifier
VerifyPaymentRoute(hdr, verdict, t) ==
    LET auth == AuthenticateToken(hdr, t)
    IN  IF ~auth.next
        THEN [status |-> auth.status, verified |-> FALSE, message |-> "",
              error |-> auth.error,
              trace |-> IF auth.status = 401 THEN <<"token-presence">>
                        ELSE <<"token-presence", "token-validity">>]
        ELSE IF verdict
        THEN [status |-> 200, verified |-> TRUE, message |-> "Payment verified",
              error |-> "",
              trace |-> <<"token-presence", "token-validity", "handler">>]
        ELSE [status |-> 400, verified |-> FALSE,
              message |-> "Payment verification failed", error |-> "",
              trace |-> <<"token-presence", "token-validity", "handler">>]

---------------------------------------------------------------------------
(* Requests any client may send *)

\* the tokens a client can put in a header: those the server has issued, a
\* string that is no JWT, and a JWT signed with a key of the client's own
Presentable == issued \cup {Garbage, Forged("alice")}

\* the Authorization headers a client can send
Headers ==
    {<<>>} \cup {<<"Bearer">>}
           \cup {<<"Bearer", tok>> : tok \in Presentable}
           \cup {<<"Basic", tok>> : tok \in issued}

NoRequest ==
    [op |-> "none", hdr |-> <<>>, customerId |-> "", pinHash |-> "",
     salt |-> "", status |-> 0, error |-> "", message |-> "",
     token |-> NoToken, trace |-> <<>>, before |-> NoRecord,
     registered |-> FALSE, transactions |-> {}, time |-> 0, txHash |-> ""]

\* the client keeps a token it was handed while it has room for it
Keep(tok) ==
    IF tok # NoToken /\ Cardinality(issued \cup {tok}) <= MaxTokens
    THEN issued \cup {tok} ELSE issued

\* the back end handles POST /api/login {customerId: c, pinHash: h}
ServeLogin(c, h) ==
    LET r == LoginRoute([customerId |-> c, pinHash |-> h], store, now)
    IN  /\ last' = [NoRequest EXCEPT !.op = "login", !.time = now, !.customerId = c,
                       !.pinHash = h, !.status = r.status, !.error = r.error,
                       !.message = r.message, !.token = r.token,
                       !.trace = <<"handler">>, !.before = Get(store, c)]
        /\ issued' = Keep(r.token)
        /\ UNCHANGED <<store, now>>

\* the back end handles POST /api/register-pin {customerId: c, pinHash: h, salt: s}
ServeRegisterPin(hdr, c, h, s) ==
    LET r == RegisterPinRoute(hdr, [customerId |-> c, pinHash |-> h, salt |-> s],
                              store, now)
    IN  /\ store' = r.store
        /\ last' = [NoRequest EXCEPT !.op = "register-pin", !.time = now, !.hdr = hdr,
                       !.customerId = c, !.pinHash = h, !.salt = s,
                       !.status = r.status, !.error = r.error,
                       !.trace = r.trace, !.before = Get(store, c)]
        /\ UNCHANGED <<now, issued>>

\* the back end handles GET /api/check-pin/c
ServeCheckPin(hdr, c) ==
    LET r == CheckPinRoute(hdr, c, store, now)
    IN  /\ last' = [NoRequest EXCEPT !.op = "check-pin", !.time = now, !.hdr = hdr,
                       !.customerId = c, !.status = r.status, !.error = r.error,
                       !.trace = r.trace, !.before = Get(store, c),
                       !.registered = r.registered]
        /\ UNCHANGED <<store, now, issued>>

\* the back end handles GET /api/transactions
ServeTransactions(hdr) ==
    LET r == TransactionsRoute(hdr, now)
    IN  /\ last' = [NoRequest EXCEPT !.op = "transactions", !.time = now, !.hdr = hdr,
                       !.status = r.status, !.error = r.error,
                       !.trace = r.trace, !.transactions = r.transactions]
        /\ UNCHANGED <<store, now, issued>>

\* the back end handles GET /api/transaction/x
ServeTransaction(hdr, x) ==
    LET r == TransactionRoute(hdr, x, now)
    IN  /\ last' = [NoRequest EXCEPT !.op = "transaction", !.time = now, !.hdr = hdr,
                       !.txHash = x, !.status = r.status, !.error = r.error,
                       !.trace = r.trace, !.transactions = r.transactions]
        /\ UNCHANGED <<store, now, issued>>

Login ==
    /\ \E c \in ReqCustomerIds, h \in ReqHashes : ServeLogin(c, h)
    /\ UNCHANGED appVars

RegisterPin ==
    /\ \E hdr \in Headers, b \in ReqBodies :
          ServeRegisterPin(hdr, b.customerId, b.pinHash, b.salt)
    /\ UNCHANGED appVars

CheckPin ==
    /\ \E hdr \in Headers, c \in Customers : ServeCheckPin(hdr, c)
    /\ UNCHANGED appVars

Transactions ==
    /\ \E hdr \in Headers : ServeTransactions(hdr)
    /\ UNCHANGED appVars

Transaction ==
    /\ \E hdr \in Headers, tx \in allTransactions : ServeTransaction(hdr, tx.id)
    /\ UNCHANGED appVars

\* time passes
Tick ==
    /\ now + StepHours <= MaxTime
    /\ now' = now + StepHours
    /\ UNCHANGED <<store, issued, last>>
    /\ UNCHANGED appVars

---------------------------------------------------------------------------
(* Two register-pin requests worked on at the same time.  The back end runs *)
(* on one thread: a request is received, passes authenticateToken, and then *)
(* protectCustomerData and the handler run; the steps of two requests may   *)
(* alternate in any order.                                                  *)

Slots == {1, 2}

\* the body of the request in slot i for customer c: the two slots submit
\* records that differ in pinHash and in salt
SlotBody(i, c) ==
    IF i = 1 THEN [customerId |-> c, pinHash |-> H1, salt |-> "s1"]
    ELSE [customerId |-> c, pinHash |-> H2, salt |-> "s2"]

NotReceived ==
    [at |-> "none", hdr |-> <<>>,
     body |-> [customerId |-> "", pinHash |-> "", salt |-> ""],
     customerId |-> "", status |-> 0]

\* a register-pin request with a token of /api/login arrives
ConcReceive ==
    /\ \E i \in Slots, tok \in issued, c \in Customers :
          /\ inflight[i].at = "none"
          /\ inflight' = [inflight EXCEPT ![i] =
                             [NotReceived EXCEPT !.at = "received",
                                                 !.hdr = <<"Bearer", tok>>,
                                                 !.body = SlotBody(i, c)]]
    /\ UNCHANGED <<store, now, issued, last, ls, app, pc, timer, mpage>>

\* authenticateToken runs on a received request
ConcAuthenticate ==
    /\ \E i \in Slots :
          /\ inflight[i].at = "received"
          /\ LET auth == AuthenticateToken(inflight[i].hdr, now)
             IN  inflight' = [inflight EXCEPT ![i] =
                    IF auth.next
                    THEN [@ EXCEPT !.at = "authenticated",
                                   !.customerId = auth.customerId]
                    ELSE [@ EXCEPT !.at = "done", !.status = auth.status]]
    /\ UNCHANGED <<store, now, issued, last, ls, app, pc, timer, mpage>>

\* protectCustomerData and the handler run on an authenticated request
ConcHandle ==
    /\ \E i \in Slots :
          /\ inflight[i].at = "authenticated"
          /\ LET req == inflight[i]
                 r == IF ~ProtectCustomerData(req.body.customerId, req.customerId)
                      THEN [status |-> 403, store |-> store, error |-> "Access denied"]
                      ELSE RegisterPinHandler(req.body, req.customerId, store)
             IN  /\ store' = r.store
                 /\ inflight' = [inflight EXCEPT ![i] =
                                    [@ EXCEPT !.at = "done", !.status = r.status]]
                 /\ last' = [NoRequest EXCEPT
                               !.op = "register-pin", !.time = now, !.hdr = req.hdr,
                               !.customerId = req.body.customerId,
                               !.pinHash = req.body.pinHash, !.salt = req.body.salt,
                               !.status = r.status, !.error = r.error,
                               !.trace = IF r.status = 403
                                         THEN <<"token-presence", "token-validity",
                                                "identity-match">>
                                         ELSE <<"token-presence", "token-validity",
                                                "identity-match", "handler">>,
                               !.before = Get(store, req.body.customerId)]
    /\ UNCHANGED <<now, issued, ls, app, pc, timer, mpage>>

---------------------------------------------------------------------------
(* The front end: App.js *)

\* /^[...]+$/.test(s) for a character class given as the string of its members
AllIn(s, class) ==
    /\ Len(s) > 0
    /\ \A i \in 1..Len(s) :
          \E j \in 1..Len(class) : SubSeq(s, i, i) = SubSeq(class, j, j)

IdChars == "abcdefghijklmnopqrstuvwxyzABCDEFGHIJKLMNOPQRSTUVWXYZ0123456789_-"
Digits == "0123456789"

validateCustomerId(id) ==
    IF Falsy(id) THEN [valid |-> FALSE, error |-> "Customer ID is required"]
    ELSE IF Len(id) < 3
    THEN [valid |-> FALSE, error |-> "Customer ID must be at least 3 characters"]
    ELSE IF Len(id) > 20
    THEN [valid |-> FALSE, error |-> "Customer ID cannot exceed 20 characters"]
    ELSE IF ~AllIn(id, IdChars)
    THEN [valid |-> FALSE,
          error |-> "Customer ID can only contain letters, numbers, hyphens, and underscores"]
    ELSE [valid |-> TRUE, error |-> ""]

\* validatePin with the length rules ahead of the digits rule
validatePinLengthFirst(p) ==
    IF Falsy(p) THEN [valid |-> FALSE, error |-> "PIN is required"]
    ELSE IF Len(p) < 4
    THEN [valid |-> FALSE, error |-> "PIN must be at least 4 digits"]
    ELSE IF Len(p) > 6
    THEN [valid |-> FALSE, error |-> "PIN cannot exceed 6 digits"]
    ELSE IF ~AllIn(p, Digits)
    THEN [valid |-> FALSE, error |-> "PIN must contain only digits"]
    ELSE [valid |-> TRUE, error |-> ""]

validatePin(p) ==
    IF Falsy(p) THEN [valid |-> FALSE, error |-> "PIN is required"]
    ELSE IF ~AllIn(p, Digits)
    THEN [valid |-> FALSE, error |-> "PIN must contain only digits"]
    ELSE IF Len(p) < 4
    THEN [valid |-> FALSE, error |-> "PIN must be at least 4 digits"]
    ELSE IF Len(p) > 6
    THEN [valid |-> FALSE, error |-> "PIN cannot exceed 6 digits"]
    ELSE [valid |-> TRUE, error |-> ""]

\* the largest amount of a payment
MaxAmount == 100000

IsDigit(ch) == \E i \in 1..Len(Digits) : SubSeq(Digits, i, i) = ch
DigitValue(ch) == (CHOOSE i \in 1..Len(Digits) : SubSeq(Digits, i, i) = ch) - 1

RECURSIVE DigitRun(_, _)
\* the length of the run of digits of s that starts at index i
DigitRun(s, i) ==
    IF i > Len(s) \/ ~IsDigit(SubSeq(s, i, i)) THEN 0
    ELSE 1 + DigitRun(s, i + 1)

AllZero(d) == \A i \in 1..Len(d) : SubSeq(d, i, i) = "0"

RECURSIVE Significant(_)
\* a string of digits without its leading zeros
Significant(d) ==
    IF Len(d) > 0 /\ SubSeq(d, 1, 1) = "0" THEN Significant(SubSeq(d, 2, Len(d)))
    ELSE d

RECURSIVE ToNat(_)
\* the number a short string of digits denotes
ToNat(d) ==
    IF Len(d) = 0 THEN 0
    ELSE 10 * ToNat(SubSeq(d, 1, Len(d) - 1)) + DigitValue(SubSeq(d, Len(d), Len(d)))

\* parseFloat(s) for a string of digits, '.', '-' and letters: the longest
\* prefix that is a decimal literal, as sign, whole digits and fraction digits,
\* or NaN.  With the few fraction digits of the inputs used here the double
\* compares with 0 and with 100000 as the decimal does.
parseFloat(s) ==
    LET neg   == Len(s) >= 1 /\ SubSeq(s, 1, 1) = "-"
        start == IF neg THEN 2 ELSE 1
        w     == DigitRun(s, start)
        dot   == start + w
        f     == IF dot <= Len(s) /\ SubSeq(s, dot, dot) = "."
                 THEN DigitRun(s, dot + 1) ELSE 0
    IN  [nan |-> w + f = 0, neg |-> neg,
         whole |-> SubSeq(s, start, start + w - 1),
         frac |-> SubSeq(s, dot + 1, dot + f)]

\* num <= 0
NotPositive(num) == num.neg \/ (AllZero(num.whole) /\ AllZero(num.frac))

\* num > limit, for num > 0
Exceeds(num, limit) ==
    LET sig == Significant(num.whole)
    IN  \/ Len(sig) > 6
        \/ ToNat(sig) > limit
        \/ ToNat(sig) = limit /\ ~AllZero(num.frac)

\* /^\d+(\.\d{0,2})?$/.test(s)
TwoDecimals(s) ==
    LET w == DigitRun(s, 1)
    IN  /\ w >= 1
        /\ \/ w = Len(s)
           \/ /\ SubSeq(s, w + 1, w + 1) = "."
              /\ DigitRun(s, w + 2) <= 2
              /\ w + 1 + DigitRun(s, w + 2) = Len(s)

\* validateAmount without the rule on the decimal places
validateAmountAnyDecimals(amount) ==
    LET num == parseFloat(amount)
    IN  IF Falsy(amount) THEN [valid |-> FALSE, error |-> "Amount is required"]
        ELSE IF num.nan
        THEN [valid |-> FALSE, error |-> "Amount must be a valid number"]
        ELSE IF NotPositive(num)
        THEN [valid |-> FALSE, error |-> "Amount must be greater than 0"]
        ELSE IF Exceeds(num, MaxAmount)
        THEN [valid |-> FALSE, error |-> "Amount cannot exceed 100,000"]
        ELSE [valid |-> TRUE, error |-> ""]

\* validateAmount(amount) of App.js, MerchantPage.js and MerchantPageEnhanced
validateAmount(amount) ==
    LET num == parseFloat(amount)
    IN  IF Falsy(amount) THEN [valid |-> FALSE, error |-> "Amount is required"]
        ELSE IF num.nan
        THEN [valid |-> FALSE, error |-> "Amount must be a valid number"]
        ELSE IF NotPositive(num)
        THEN [valid |-> FALSE, error |-> "Amount must be greater than 0"]
        ELSE IF Exceeds(num, MaxAmount)
        THEN [valid |-> FALSE, error |-> "Amount cannot exceed 100,000"]
        ELSE IF ~TwoDecimals(amount)
        THEN [valid |-> FALSE, error |-> "Amount can have at most 2 decimal places"]
        ELSE [valid |-> TRUE, error |-> ""]

EmptyStorage == [jwtToken |-> NoToken, customerId |-> "", pinHash |-> ""]

\* no async handler of App is running
Idle ==
    [at |-> "idle", fresh |-> FALSE, customerId |-> "", pin |-> "",
     hdr |-> <<>>, salt |-> ""]

\* no register-pin request is being worked on
NoInflight == <<>>

\* no merchant page is open
NoPage == [component |-> "none", at |-> "idle", transactions |-> {}, reply |-> ""]

\* the Authorization header authenticatedFetch builds from the stored token
AuthHeader(token) == IF token # NoToken THEN <<"Bearer", token>> ELSE <<>>

\* what the customer may type as customer id: two valid ones, one too short
TypedIds == Customers \cup {"ab"}

\* error.message of a fetch that rejects
FetchError == "Failed to fetch"

\* App renders the screen s of the customer flow
Shown(s) == app.viewMode # "merchant" /\ app.screen = s

\* no async handler is suspended: the model follows one invocation at a time
NoHandler == pc.at \in {"idle", "done"}

\* customer home screen: "Register New Account"
OpenRegister ==
    /\ app.screen = "home" /\ app.viewMode = "customer"
    /\ app' = [app EXCEPT !.screen = "register"]
    /\ UNCHANGED <<store, now, issued, last, ls, pc, timer>>
    /\ UNCHANGED <<inflight, mpage>>

\* customer home screen: "Sign In"
OpenSignIn ==
    /\ app.screen = "home" /\ app.viewMode = "customer"
    /\ app' = [app EXCEPT !.screen = "signin"]
    /\ UNCHANGED <<store, now, issued, last, ls, pc, timer>>
    /\ UNCHANGED <<inflight, mpage>>

\* register and sign-in screen: onChange of the customer id input
TypeCustomerId ==
    /\ Shown("register") \/ Shown("signin")
    /\ \E v \in TypedIds : app' = [app EXCEPT !.customerId = v]
    /\ UNCHANGED <<store, now, issued, last, ls, pc, timer>>
    /\ UNCHANGED <<inflight, mpage>>

\* register, sign-in and PIN screen: onChange of the PIN input
TypePin ==
    /\ Shown("register") \/ Shown("signin") \/ Shown("pin")
    /\ \E v \in Pins : app' = [app EXCEPT !.pin = v]
    /\ UNCHANGED <<store, now, issued, last, ls, pc, timer>>
    /\ UNCHANGED <<inflight, mpage>>

\* register screen: "Back"
RegisterBack ==
    /\ Shown("register")
    /\ app' = [app EXCEPT !.screen = "home", !.error = "", !.pin = ""]
    /\ UNCHANGED <<store, now, issued, last, ls, pc, timer>>
    /\ UNCHANGED <<inflight, mpage>>

\* sign-in screen: "Back"
SignInBack ==
    /\ Shown("signin")
    /\ app' = [app EXCEPT !.screen = "home", !.error = "", !.pin = "",
                          !.customerId = ""]
    /\ UNCHANGED <<store, now, issued, last, ls, pc, timer>>
    /\ UNCHANGED <<inflight, mpage>>

\* PIN screen: "Cancel"
PinCancel ==
    /\ Shown("pin")
    /\ app' = [app EXCEPT !.screen = "home", !.pin = "", !.error = ""]
    /\ UNCHANGED <<store, now, issued, last, ls, pc, timer>>
    /\ UNCHANGED <<inflight, mpage>>

\* error screen: "Retry PIN"
RetryPin ==
    /\ Shown("error")
    /\ app' = [app EXCEPT !.screen = "pin", !.error = ""]
    /\ UNCHANGED <<store, now, issued, last, ls, pc, timer>>
    /\ UNCHANGED <<inflight, mpage>>

\* success and error screen: "Back to Merchant Dashboard"
BackToMerchant ==
    /\ Shown("success") \/ Shown("error")
    /\ app' = [app EXCEPT !.viewMode = "merchant", !.screen = "home",
                          !.merchantId = "", !.amount = "", !.pin = ""]
    /\ UNCHANGED <<store, now, issued, last, ls, pc, timer>>
    /\ UNCHANGED <<inflight, mpage>>

\* the merchant dashboard App shows in merchant mode: onSwitchMode('customer')
SwitchMode ==
    /\ app.viewMode = "merchant"
    /\ app' = [app EXCEPT !.viewMode = "customer"]
    /\ UNCHANGED <<store, now, issued, last, ls, pc, timer>>
    /\ UNCHANGED <<inflight, mpage>>

\* handleRegisterPin up to its first await: validation, then loginUser's fetch
\* of /api/login is on its way.  fresh records that the registry and the
\* localStorage were both empty when the customer pressed the button.
HandleRegisterPin ==
    /\ Shown("register")
    /\ NoHandler
    /\ LET started == [Idle EXCEPT !.customerId = app.customerId, !.pin = app.pin,
                          !.fresh = (store = EmptyStore /\ ls = EmptyStorage)]
       IN  IF ~validateCustomerId(app.customerId).valid
           THEN /\ app' = [app EXCEPT !.error = validateCustomerId(app.customerId).error]
                /\ pc' = [started EXCEPT !.at = "done"]
           ELSE IF ~validatePin(app.pin).valid
           THEN /\ app' = [app EXCEPT !.error = validatePin(app.pin).error]
                /\ pc' = [started EXCEPT !.at = "done"]
           ELSE /\ app' = [app EXCEPT !.screen = "processing"]
                /\ pc' = [started EXCEPT !.at = "login"]
    /\ UNCHANGED <<store, now, issued, last, ls, timer>>
    /\ UNCHANGED <<inflight, mpage>>

\* handleRegisterPin keeping the credentials in localStorage as soon as the
\* login succeeded
HrpLoginStoresEarly ==
    /\ pc.at = "login"
    /\ LET pinHash == simpleHash(pc.pin)
           r == LoginRoute([customerId |-> pc.customerId, pinHash |-> pinHash],
                           store, now)
           ok == r.status = 200 /\ r.token # NoToken
           msg == IF r.error # "" THEN r.error
                  ELSE IF r.message # "" THEN r.message ELSE "Login failed"
       IN  /\ ServeLogin(pc.customerId, pinHash)
           /\ IF ok
              THEN /\ ls' = [ls EXCEPT !.jwtToken = r.token,
                                       !.customerId = pc.customerId,
                                       !.pinHash = pinHash]
                   /\ pc' = [pc EXCEPT !.at = "loggedin"]
                   /\ app' = app
              ELSE /\ app' = [app EXCEPT !.error = "Authentication failed: " \o msg,
                                         !.screen = "register"]
                   /\ pc' = [pc EXCEPT !.at = "done"]
                   /\ ls' = ls
    /\ UNCHANGED timer
    /\ UNCHANGED <<inflight, mpage>>

\* handleRegisterPin going on to register-pin whatever loginUser returned
HrpLoginIgnoresFailure ==
    /\ pc.at = "login"
    /\ LET pinHash == simpleHash(pc.pin)
           r == LoginRoute([customerId |-> pc.customerId, pinHash |-> pinHash],
                           store, now)
           ok == r.status = 200 /\ r.token # NoToken
       IN  /\ ServeLogin(pc.customerId, pinHash)
           /\ ls' = IF ok THEN [ls EXCEPT !.jwtToken = r.token] ELSE ls
           /\ pc' = [pc EXCEPT !.at = "loggedin"]
           /\ app' = app
    /\ UNCHANGED timer
    /\ UNCHANGED <<inflight, mpage>>

\* the back end answers loginUser's POST /api/login and loginUser returns
HrpLogin ==
    /\ pc.at = "login"
    /\ LET pinHash == simpleHash(pc.pin)
           r == LoginRoute([customerId |-> pc.customerId, pinHash |-> pinHash],
                           store, now)
           ok == r.status = 200 /\ r.token # NoToken
           msg == IF r.error # "" THEN r.error
                  ELSE IF r.message # "" THEN r.message ELSE "Login failed"
       IN  /\ ServeLogin(pc.customerId, pinHash)
           /\ IF ok
              THEN /\ ls' = [ls EXCEPT !.jwtToken = r.token]
                   /\ pc' = [pc EXCEPT !.at = "loggedin"]
                   /\ app' = app
              ELSE /\ app' = [app EXCEPT !.error = "Authentication failed: " \o msg,
                                         !.screen = "register"]
                   /\ pc' = [pc EXCEPT !.at = "done"]
                   /\ ls' = ls
    /\ UNCHANGED timer
    /\ UNCHANGED <<inflight, mpage>>

\* loginUser's fetch rejects: its catch returns the failure
HrpLoginRejects ==
    /\ pc.at = "login"
    /\ app' = [app EXCEPT !.error = "Authentication failed: " \o FetchError,
                          !.screen = "register"]
    /\ pc' = [pc EXCEPT !.at = "done"]
    /\ UNCHANGED <<store, now, issued, last, ls, timer>>
    /\ UNCHANGED <<inflight, mpage>>

\* handleRegisterPin resumes after loginUser: authenticatedFetch reads the
\* stored token and sends POST /api/register-pin
HrpSend ==
    /\ pc.at = "loggedin"
    /\ pc' = [pc EXCEPT !.at = "register", !.hdr = AuthHeader(ls.jwtToken),
                        !.salt = "demo_salt_" \o ToString(now)]
    /\ UNCHANGED <<store, now, issued, last, ls, app, timer>>
    /\ UNCHANGED <<inflight, mpage>>

\* the back end answers POST /api/register-pin; authenticatedFetch and the rest
\* of handleRegisterPin run on the response
HrpRegister ==
    /\ pc.at = "register"
    /\ LET pinHash == simpleHash(pc.pin)
           r == RegisterPinRoute(pc.hdr, [customerId |-> pc.customerId,
                                          pinHash |-> pinHash, salt |-> pc.salt],
                                 store, now)
           ls1 == IF r.status = 401 THEN [ls EXCEPT !.jwtToken = NoToken] ELSE ls
       IN  /\ ServeRegisterPin(pc.hdr, pc.customerId, pinHash, pc.salt)
           /\ IF r.status = 200
              THEN /\ ls' = [ls1 EXCEPT !.customerId = pc.customerId,
                                        !.pinHash = pinHash]
                   /\ IF app.merchantId # "" /\ app.amount # ""
                      THEN /\ app' = [app EXCEPT !.registeredPin = TRUE, !.error = "",
                                         !.pin = "",
                                         !.response = "PIN registered! Now enter PIN to complete payment."]
                           /\ timer' = timer \cup {"pin"}
                      ELSE /\ app' = [app EXCEPT !.registeredPin = TRUE, !.error = "",
                                         !.pin = "",
                                         !.response = "PIN registered successfully! You can now make payments.",
                                         !.screen = "success"]
                           /\ timer' = timer
              ELSE /\ ls' = ls1
                   /\ app' = [app EXCEPT !.error = IF r.error # "" THEN r.error
                                                   ELSE "Registration failed",
                                         !.screen = "error"]
                   /\ timer' = timer
           /\ pc' = [pc EXCEPT !.at = "done"]
    /\ UNCHANGED <<inflight, mpage>>

\* the fetch of /api/register-pin rejects: the catch of handleRegisterPin
HrpRegisterRejects ==
    /\ pc.at = "register"
    /\ app' = [app EXCEPT !.error = "Error: " \o FetchError, !.screen = "error"]
    /\ pc' = [pc EXCEPT !.at = "done"]
    /\ UNCHANGED <<store, now, issued, last, ls, timer>>
    /\ UNCHANGED <<inflight, mpage>>

\* a setTimeout callback of handleRegisterPin or handleSignIn runs
TimerFires ==
    /\ \E s \in timer :
          /\ app' = [app EXCEPT !.screen = s]
          /\ timer' = timer \ {s}
    /\ UNCHANGED <<store, now, issued, last, ls, pc>>
    /\ UNCHANGED <<inflight, mpage>>

\* handleSignIn: the typed credentials against the ones in localStorage
HandleSignIn ==
    /\ Shown("signin")
    /\ IF ~validateCustomerId(app.customerId).valid
       THEN /\ app' = [app EXCEPT !.error = validateCustomerId(app.customerId).error]
            /\ timer' = timer
       ELSE IF ~validatePin(app.pin).valid
       THEN /\ app' = [app EXCEPT !.error = validatePin(app.pin).error]
            /\ timer' = timer
       ELSE IF Falsy(ls.customerId) \/ Falsy(ls.pinHash)
       THEN /\ app' = [app EXCEPT !.error = "No account found. Please register first."]
            /\ timer' = timer
       ELSE IF ls.customerId # app.customerId
       THEN /\ app' = [app EXCEPT !.error = "Customer ID not found"]
            /\ timer' = timer
       ELSE IF ls.pinHash # simpleHash(app.pin)
       THEN /\ app' = [app EXCEPT !.error = "Wrong PIN"]
            /\ timer' = timer
       ELSE IF app.merchantId # "" /\ app.amount # ""
       THEN /\ app' = [app EXCEPT !.registeredPin = TRUE, !.error = "", !.pin = "",
                                  !.screen = "pin"]
            /\ timer' = timer
       ELSE /\ app' = [app EXCEPT !.registeredPin = TRUE, !.error = "",
                                  !.response = "Signed in successfully!"]
            /\ timer' = timer \cup {"home"}
    /\ UNCHANGED <<store, now, issued, last, ls, pc>>
    /\ UNCHANGED <<inflight, mpage>>

WrongPinMessage == "Wrong PIN! The hash does not match your registered PIN."

\* handlePINSubmit with a submitPayment that sends the request without
\* comparing the hashes
HandlePINSubmitNoPreCheck ==
    /\ Shown("pin")
    /\ NoHandler
    /\ LET started == [Idle EXCEPT !.customerId = app.customerId, !.pin = app.pin]
       IN  IF ~validatePin(app.pin).valid
           THEN /\ app' = [app EXCEPT !.error = validatePin(app.pin).error]
                /\ pc' = [started EXCEPT !.at = "done"]
           ELSE /\ app' = [app EXCEPT !.error = "", !.screen = "processing"]
                /\ pc' = [started EXCEPT !.at = "verify",
                                         !.hdr = AuthHeader(ls.jwtToken)]
    /\ UNCHANGED <<store, now, issued, last, ls, timer>>
    /\ UNCHANGED <<inflight, mpage>>

\* handlePINSubmit, and submitPayment up to its first await: validation, the
\* pre-check of the hash against localStorage, then authenticatedFetch reads
\* the stored token and POST /api/verify-payment is on its way
HandlePINSubmit ==
    /\ Shown("pin")
    /\ NoHandler
    /\ LET started == [Idle EXCEPT !.customerId = app.customerId, !.pin = app.pin]
       IN  IF ~validatePin(app.pin).valid
           THEN /\ app' = [app EXCEPT !.error = validatePin(app.pin).error]
                /\ pc' = [started EXCEPT !.at = "done"]
           ELSE IF simpleHash(app.pin) # ls.pinHash
           THEN /\ app' = [app EXCEPT !.error = WrongPinMessage, !.screen = "error"]
                /\ pc' = [started EXCEPT !.at = "done"]
           ELSE /\ app' = [app EXCEPT !.error = "", !.screen = "processing"]
                /\ pc' = [started EXCEPT !.at = "verify",
                                         !.hdr = AuthHeader(ls.jwtToken)]
    /\ UNCHANGED <<store, now, issued, last, ls, timer>>
    /\ UNCHANGED <<inflight, mpage>>

\* the back end handles POST /api/verify-payment, with the verdict of its
\* verifier
ServeVerifyPayment(hdr, c, h, verdict) ==
    LET r == VerifyPaymentRoute(hdr, verdict, now)
    IN  /\ last' = [NoRequest EXCEPT !.op = "verify-payment", !.time = now,
                       !.hdr = hdr, !.customerId = c, !.pinHash = h,
                       !.status = r.status, !.error = r.error,
                       !.message = r.message, !.trace = r.trace,
                       !.before = Get(store, c)]
        /\ UNCHANGED <<store, now, issued>>

\* the back end answers POST /api/verify-payment; authenticatedFetch and the
\* rest of submitPayment run on the response
HpsVerify ==
    /\ pc.at = "verify"
    /\ \E verdict \in BOOLEAN :
          LET r == VerifyPaymentRoute(pc.hdr, verdict, now)
          IN  /\ ServeVerifyPayment(pc.hdr, pc.customerId, simpleHash(pc.pin), verdict)
              /\ ls' = IF r.status = 401 THEN [ls EXCEPT !.jwtToken = NoToken] ELSE ls
              /\ app' = IF r.verified
                        THEN [app EXCEPT !.response = r.message, !.screen = "success"]
                        ELSE [app EXCEPT !.error = IF r.message # "" THEN r.message
                                                   ELSE "Payment verification failed",
                                         !.screen = "error"]
    /\ pc' = [pc EXCEPT !.at = "done"]
    /\ UNCHANGED timer
    /\ UNCHANGED <<inflight, mpage>>

\* the catch of submitPayment without its setScreen
HpsRejectsKeepsScreen ==
    /\ pc.at = "verify"
    /\ app' = [app EXCEPT !.error = "Backend error: " \o FetchError]
    /\ pc' = [pc EXCEPT !.at = "done"]
    /\ UNCHANGED <<store, now, issued, last, ls, timer>>
    /\ UNCHANGED <<inflight, mpage>>

\* the fetch of /api/verify-payment rejects: the catch of submitPayment
HpsRejects ==
    /\ pc.at = "verify"
    /\ app' = [app EXCEPT !.error = "Backend error: " \o FetchError,
                          !.screen = "error"]
    /\ pc' = [pc EXCEPT !.at = "done"]
    /\ UNCHANGED <<store, now, issued, last, ls, timer>>
    /\ UNCHANGED <<inflight, mpage>>

---------------------------------------------------------------------------
(* The front end: the merchant pages *)

\* localStorage.getItem('merchantId') || 'merchant-default', and the PIN
\* loginUser falls back to
MerchantDefault == "merchant-default"
DefaultPin == "0000"

\* the back end handles GET /api/recent-payments
ServeRecentPayments(hdr) ==
    LET r == RecentPaymentsRoute(hdr, now)
    IN  /\ last' = [NoRequest EXCEPT !.op = "recent-payments", !.time = now,
                       !.hdr = hdr, !.status = r.status, !.error = r.error,
                       !.trace = r.trace, !.transactions = r.payments]
        /\ UNCHANGED <<store, now, issued>>

\* the back end handles POST /api/gemini-query
ServeGeminiQuery(hdr) ==
    LET r == GeminiQueryRoute(hdr, now)
    IN  /\ last' = [NoRequest EXCEPT !.op = "gemini-query", !.time = now,
                       !.hdr = hdr, !.status = r.status, !.error = r.error,
                       !.trace = r.trace, !.message = r.response]
        /\ UNCHANGED <<store, now, issued>>

\* MerchantPage: fetchTransactions, on mount and every 5 seconds, with the
\* response handled
MpFetchTransactions ==
    /\ mpage.component = "MerchantPage"
    /\ LET r == RecentPaymentsRoute(<<>>, now)
       IN  /\ ServeRecentPayments(<<>>)
           /\ mpage' = [mpage EXCEPT !.transactions = r.payments]
    /\ UNCHANGED <<ls, app, pc, timer, inflight>>

\* MerchantPageEnhanced: fetchTransactions, on mount and every 5 seconds, up
\* to the answer to loginUser(merchantId)
MpeLogin ==
    /\ mpage.component = "MerchantPageEnhanced"
    /\ mpage.at = "idle"
    /\ LET pinHash == MpeSimpleHash(DefaultPin)
           r == LoginRoute([customerId |-> MerchantDefault, pinHash |-> pinHash],
                           store, now)
       IN  /\ ServeLogin(MerchantDefault, pinHash)
           /\ IF r.status = 200 /\ r.token # NoToken
              THEN /\ ls' = [ls EXCEPT !.jwtToken = r.token]
                   /\ mpage' = [mpage EXCEPT !.at = "recent-payments"]
              ELSE /\ ls' = ls
                   /\ mpage' = mpage
    /\ UNCHANGED <<app, pc, timer, inflight>>

\* MerchantPageEnhanced: fetchTransactions after the login, authenticatedFetch
\* of /api/recent-payments with the response handled
MpeFetchTransactions ==
    /\ mpage.component = "MerchantPageEnhanced"
    /\ mpage.at = "recent-payments"
    /\ LET hdr == AuthHeader(ls.jwtToken)
           r == RecentPaymentsRoute(hdr, now)
       IN  /\ ServeRecentPayments(hdr)
           /\ ls' = IF r.status = 401 THEN [ls EXCEPT !.jwtToken = NoToken] ELSE ls
           /\ mpage' = [mpage EXCEPT !.at = "idle", !.transactions = r.payments]
    /\ UNCHANGED <<app, pc, timer, inflight>>

\* MerchantPageEnhanced: handleSendMessage for a valid message, authenticatedFetch of
\* /api/gemini-query with the response handled
MpeHandleSendMessage ==
    /\ mpage.component = "MerchantPageEnhanced"
    /\ LET hdr == AuthHeader(ls.jwtToken)
           r == GeminiQueryRoute(hdr, now)
       IN  /\ ServeGeminiQuery(hdr)
           /\ ls' = IF r.status = 401 THEN [ls EXCEPT !.jwtToken = NoToken] ELSE ls
           /\ mpage' = [mpage EXCEPT !.reply =
                           IF r.response # "" THEN r.response
                           ELSE "Sorry, I couldn't process your request."]
    /\ UNCHANGED <<app, pc, timer, inflight>>

---------------------------------------------------------------------------
(* The pure functions of the front end on their own: an input is typed one  *)
(* character at a time and the function is applied to it.                   *)

\* an input has at most this many characters typed
MaxInput == 7

\* the characters typed into the input of fn
Alphabet(fn) ==
    IF fn = "validatePin" THEN {"1", "7", "a"}
    ELSE IF fn = "validateAmount" THEN {"0", "1", "."}
    ELSE {"1", "9", "z"}

\* what the input of fn holds before the typing starts
Starts(fn) ==
    IF fn = "validateAmount"
    THEN {"", "-", "1", "100", "99999", "100000", "100001"}
    ELSE {""}

NotApplied ==
    [applied |-> FALSE, valid |-> FALSE, error |-> "", hash |-> "", mpeHash |-> ""]

\* one more character is typed
KeyIn ==
    /\ app.typed < MaxInput
    /\ \E ch \in Alphabet(app.fn) :
          app' = [app EXCEPT !.input = @ \o ch, !.typed = @ + 1, !.out = NotApplied]
    /\ UNCHANGED <<store, now, issued, last, ls, pc, timer, inflight, mpage>>

ApplyValidatePin ==
    /\ app.fn = "validatePin"
    /\ ~app.out.applied
    /\ LET r == validatePin(app.input)
       IN  app' = [app EXCEPT !.out = [NotApplied EXCEPT !.applied = TRUE,
                                          !.valid = r.valid, !.error = r.error]]
    /\ UNCHANGED <<store, now, issued, last, ls, pc, timer, inflight, mpage>>

ApplyValidateAmount ==
    /\ app.fn = "validateAmount"
    /\ ~app.out.applied
    /\ LET r == validateAmount(app.input)
       IN  app' = [app EXCEPT !.out = [NotApplied EXCEPT !.applied = TRUE,
                                          !.valid = r.valid, !.error = r.error]]
    /\ UNCHANGED <<store, now, issued, last, ls, pc, timer, inflight, mpage>>

\* both copies of simpleHash are applied to the input
ApplySimpleHash ==
    /\ app.fn = "simpleHash"
    /\ ~app.out.applied
    /\ app' = [app EXCEPT !.out = [NotApplied EXCEPT !.applied = TRUE,
                                       !.hash = simpleHash(app.input),
                                       !.mpeHash = MpeSimpleHash(app.input)]]
    /\ UNCHANGED <<store, now, issued, last, ls, pc, timer, inflight, mpage>>

---------------------------------------------------------------------------
(* Specifications *)

\* the records the registry may hold when the modelled endpoints start to be
\* used: the map is filled by registerPINHash, whose callers other than
\* /api/register-pin are outside the modelled endpoints
ProvisionedStores ==
    UNION { [D -> {Record(H1, "default_salt")}] : D \in SUBSET Customers }

\* the browser after App has mounted on an empty localStorage, opened
\* without URL parameters
InitApp ==
    /\ ls = EmptyStorage
    /\ app = [viewMode |-> "home", screen |-> "home", customerId |-> "",
              registeredPin |-> FALSE, merchantId |-> "", amount |-> "",
              pin |-> "", response |-> "", error |-> ""]
    /\ pc = Idle
    /\ timer = {}
    /\ inflight = NoInflight
    /\ mpage = NoPage

Init ==
    /\ store \in ProvisionedStores
    /\ now = 0
    /\ issued = {}
    /\ last = NoRequest
    /\ InitApp

Next == Login \/ RegisterPin \/ CheckPin \/ Transactions \/ Tick

Spec == Init /\ [][Next]_vars

\* the customer's browser, opened on the customer page (?mode=customer), with
\* or without the merchantId and amount of a scanned QR code
InitCustomer ==
    /\ store \in ProvisionedStores
    /\ now = 0
    /\ issued = {}
    /\ last = NoRequest
    /\ ls = EmptyStorage
    /\ \E qr \in {<<"", "">>, <<"shop", "100">>} :
          app = [viewMode |-> "customer", screen |-> "home", customerId |-> "",
                 registeredPin |-> FALSE, merchantId |-> qr[1], amount |-> qr[2],
                 pin |-> "", response |-> "", error |-> ""]
    /\ pc = Idle
    /\ timer = {}
    /\ inflight = NoInflight
    /\ mpage = NoPage

\* the registration: the register screen and handleRegisterPin, with the clock
NextApp ==
    \/ OpenRegister \/ TypeCustomerId \/ TypePin \/ HandleRegisterPin
    \/ HrpLogin \/ HrpLoginRejects \/ HrpSend \/ HrpRegister
    \/ HrpRegisterRejects \/ TimerFires \/ Tick

SpecApp == InitCustomer /\ [][NextApp]_vars

\* the customer's browser after a QR code was scanned, with both customers
\* provisioned; the clock stands still
InitPay ==
    /\ store = [c \in Customers |-> Record(H1, "default_salt")]
    /\ now = 0
    /\ issued = {}
    /\ last = NoRequest
    /\ ls = EmptyStorage
    /\ app = [viewMode |-> "customer", screen |-> "home", customerId |-> "",
              registeredPin |-> FALSE, merchantId |-> "shop", amount |-> "100",
              pin |-> "", response |-> "", error |-> ""]
    /\ pc = Idle
    /\ timer = {}
    /\ inflight = NoInflight
    /\ mpage = NoPage

\* the customer flow: registration, sign-in and payment
NextPay ==
    \/ OpenRegister \/ OpenSignIn \/ TypeCustomerId \/ TypePin
    \/ RegisterBack \/ SignInBack \/ PinCancel \/ RetryPin
    \/ HandleRegisterPin \/ HrpLogin \/ HrpLoginRejects \/ HrpSend
    \/ HrpRegister \/ HrpRegisterRejects \/ TimerFires
    \/ HandleSignIn \/ HandlePINSubmit \/ HpsVerify \/ HpsRejects

SpecPay == InitPay /\ [][NextPay]_vars

\* the customer's browser tab after a QR code was scanned, next to a second tab
\* of the same origin, and so on the same localStorage, that shows
\* MerchantPageEnhanced; the merchant of
\* that page may or may not be able to log in; the clock stands still
InitTabs ==
    /\ \E registered \in BOOLEAN :
          LET customers == [c \in Customers |-> Record(H1, "default_salt")]
          IN  store = IF registered
                      THEN Put(customers, MerchantDefault,
                               Record(MpeSimpleHash(DefaultPin), "default_salt"))
                      ELSE customers
    /\ now = 0
    /\ issued = {}
    /\ last = NoRequest
    /\ ls = EmptyStorage
    /\ app = [viewMode |-> "customer", screen |-> "home", customerId |-> "",
              registeredPin |-> FALSE, merchantId |-> "shop", amount |-> "100",
              pin |-> "", response |-> "", error |-> ""]
    /\ pc = Idle
    /\ timer = {}
    /\ inflight = NoInflight
    /\ mpage = [NoPage EXCEPT !.component = "MerchantPageEnhanced"]

\* the registration of the one tab and the polling of the other
NextTabs ==
    \/ OpenRegister \/ TypeCustomerId \/ TypePin
    \/ HandleRegisterPin \/ HrpLogin \/ HrpLoginRejects \/ HrpSend
    \/ HrpRegister \/ HrpRegisterRejects \/ TimerFires
    \/ MpeLogin \/ MpeFetchTransactions

SpecTabs == InitTabs /\ [][NextTabs]_vars

\* the customer's browser with both customers provisioned, opened from a QR
\* link or without one; the clock stands still
InitLive ==
    /\ store = [c \in Customers |-> Record(H1, "default_salt")]
    /\ now = 0
    /\ issued = {}
    /\ last = NoRequest
    /\ ls = EmptyStorage
    /\ \E qr \in {<<"shop", "100">>, <<"", "">>} :
          app = [viewMode |-> "customer", screen |-> "home", customerId |-> "",
                 registeredPin |-> FALSE, merchantId |-> qr[1], amount |-> qr[2],
                 pin |-> "", response |-> "", error |-> ""]
    /\ pc = Idle
    /\ timer = {}
    /\ inflight = NoInflight
    /\ mpage = NoPage

\* the customer types her own id
TypeOwnId == TypeCustomerId /\ app'.customerId \in {"", "alice"}

\* the customer flow with the merchant dashboard in between; the dashboard's
\* merchant is not in the registry, so its polling stores no token and leaves
\* what the customer flow reads as it is
NextLive ==
    \/ OpenRegister \/ OpenSignIn \/ TypeOwnId \/ TypePin
    \/ RegisterBack \/ SignInBack \/ PinCancel \/ RetryPin
    \/ HandleRegisterPin \/ HrpLogin \/ HrpLoginRejects \/ HrpSend
    \/ HrpRegister \/ HrpRegisterRejects \/ TimerFires
    \/ HandleSignIn \/ HandlePINSubmit \/ HpsVerify \/ HpsRejects
    \/ BackToMerchant \/ SwitchMode

\* every fetch on its way resolves or rejects and the handler resumes; a
\* callback given to setTimeout runs.  The continuation on a response and the
\* catch are enabled in the same states and each of them ends the wait, so
\* weak fairness of the catch says that the wait ends one way or the other
\* and forces no rejection.
Fairness ==
    /\ WF_vars(HrpLoginRejects)
    /\ WF_vars(HrpSend)
    /\ WF_vars(HrpRegisterRejects)
    /\ WF_vars(HpsRejects)
    /\ WF_vars(TimerFires)

SpecLive == InitLive /\ [][NextLive]_vars /\ Fairness

\* one of the pure functions with an input to work on
InitPure ==
    /\ store = EmptyStore
    /\ now = 0
    /\ issued = {}
    /\ last = NoRequest
    /\ ls = EmptyStorage
    /\ \E fn \in {"validatePin", "validateAmount", "simpleHash"} :
          \E s \in Starts(fn) :
             app = [fn |-> fn, input |-> s, typed |-> 0, out |-> NotApplied]
    /\ pc = Idle
    /\ timer = {}
    /\ inflight = NoInflight
    /\ mpage = NoPage

NextPure == KeyIn \/ ApplyValidatePin \/ ApplyValidateAmount \/ ApplySimpleHash

SpecPure == InitPure /\ [][NextPure]_vars

\* a browser on an empty localStorage showing one of the two merchant pages,
\* with or without a record for the default merchant id
InitMerchant ==
    /\ store \in ProvisionedStores \cup
                 { Put(st, MerchantDefault,
                       Record(simpleHash(DefaultPin), "default_salt")) :
                     st \in ProvisionedStores }
    /\ now = 0
    /\ issued = {}
    /\ last = NoRequest
    /\ ls = EmptyStorage
    /\ app = [viewMode |-> "merchant", screen |-> "home", customerId |-> "",
              registeredPin |-> FALSE, merchantId |-> "", amount |-> "",
              pin |-> "", response |-> "", error |-> ""]
    /\ pc = Idle
    /\ timer = {}
    /\ inflight = NoInflight
    /\ \E c \in {"MerchantPage", "MerchantPageEnhanced"} :
          mpage = [NoPage EXCEPT !.component = c]

NextMerchant ==
    \/ MpFetchTransactions \/ MpeLogin \/ MpeFetchTransactions
    \/ MpeHandleSendMessage \/ Tick

SpecMerchant == InitMerchant /\ [][NextMerchant]_vars

\* the back end with two register-pin requests still to arrive
InitConc ==
    /\ store \in ProvisionedStores
    /\ now = 0
    /\ issued = {}
    /\ last = NoRequest
    /\ ls = EmptyStorage
    /\ app = [viewMode |-> "home", screen |-> "home", customerId |-> "",
              registeredPin |-> FALSE, merchantId |-> "", amount |-> "",
              pin |-> "", response |-> "", error |-> ""]
    /\ pc = Idle
    /\ timer = {}
    /\ inflight = [i \in Slots |-> NotReceived]
    /\ mpage = NoPage

NextConc == Login \/ ConcReceive \/ ConcAuthenticate \/ ConcHandle \/ Tick

SpecConc == InitConc /\ [][NextConc]_vars

\* the transaction endpoints alone, with the login that hands out the tokens
NextLedger == Login \/ Transactions \/ Transaction \/ Tick

SpecLedger == Init /\ [][NextLedger]_vars

---------------------------------------------------------------------------
(* Properties.  last is the request the back end handled last: its fields  *)
(* before and time are the target's record and the clock when it arrived.  *)

Protected == {"register-pin", "check-pin", "transactions"}

\* the last request carried a token in its Authorization header
HasToken == Len(last.hdr) >= 2

\* ... and the token is one /api/login signed
TokenIsGenuine == HasToken /\ last.hdr[2].sig = JWT_SECRET

\* ... and jwt.verify has a reason to refuse it at the time of the request
TokenIsBad ==
    /\ HasToken
    /\ \/ last.hdr[2].sig # JWT_SECRET
       \/ last.time >= last.hdr[2].iat + JWT_EXPIRY

\* C1: a login that carries the customerId of a stored record and exactly the
\* stored pinHash is answered 200 with a token whose subject is that customerId.
C1_LoginWithStoredHashSucceeds ==
    (/\ last.op = "login"
     /\ last.before # NoRecord
     /\ last.pinHash = last.before.pinHash)
    => (/\ last.status = 200
        /\ last.token # NoToken
        /\ last.token.customerId = last.customerId
        /\ last.token.sig = JWT_SECRET)

C1_Witness ==
    /\ last.op = "login"
    /\ last.before # NoRecord
    /\ last.pinHash = last.before.pinHash
    /\ last.status = 200
    /\ last.token \in issued

\* C2: a login with both fields present is answered 401 without a token when
\* the customerId has no record or the stored pinHash differs from the one
\* presented; no token is ever held for a customerId that has no record.
C2_LoginRejectsUnknownOrWrongHash ==
    /\ (/\ last.op = "login"
        /\ ~Falsy(last.customerId) /\ ~Falsy(last.pinHash)
        /\ \/ last.before = NoRecord
           \/ last.before.pinHash # last.pinHash)
       => (last.status = 401 /\ last.token = NoToken)
    /\ \A tok \in issued :
          /\ tok.customerId \in DOMAIN store
          /\ tok.sig = JWT_SECRET

C2_Witness ==
    /\ last.op = "login"
    /\ last.before # NoRecord
    /\ ~Falsy(last.pinHash)
    /\ last.before.pinHash # last.pinHash
    /\ last.status = 401
    /\ \E c \in Customers : c \notin DOMAIN store

\* C3: a register-pin or check-pin request with a token issued for A that names
\* a customer B # A is answered 403, by the identity check when the token is
\* still valid, whether or not B has a record, and B's record stays as it was.
C3_OtherSubjectIsForbidden ==
    (/\ last.op \in {"register-pin", "check-pin"}
     /\ TokenIsGenuine
     /\ ~Falsy(last.customerId)
     /\ last.hdr[2].customerId # last.customerId)
    => (/\ last.status = 403
        /\ Get(store, last.customerId) = last.before
        /\ ~TokenIsBad =>
             last.trace = <<"token-presence", "token-validity", "identity-match">>)

C3_Witness ==
    /\ last.op = "register-pin"
    /\ TokenIsGenuine /\ ~TokenIsBad
    /\ last.hdr[2] \in issued
    /\ ~Falsy(last.customerId) /\ ~Falsy(last.pinHash)
    /\ last.hdr[2].customerId # last.customerId
    /\ last.before = NoRecord
    /\ last.status = 403

\* C4: a register-pin request for a customerId without a record is accepted
\* without a token and creates the record; once the record exists, a
\* register-pin request for it is accepted only with a valid token of that
\* customerId.
C4_BootstrapWithoutToken ==
    (/\ last.op = "register-pin"
     /\ ~Falsy(last.customerId) /\ ~Falsy(last.pinHash))
    => (/\ (last.before = NoRecord /\ last.hdr = <<>>)
              => (last.status = 200 /\ last.customerId \in DOMAIN store)
        /\ (last.before # NoRecord /\ last.status = 200)
              => (/\ TokenIsGenuine /\ ~TokenIsBad
                  /\ last.hdr[2].customerId = last.customerId))

\* C5: a first-time customer (empty registry, empty localStorage) who submits a
\* valid customerId and PIN through handleRegisterPin ends with the PIN
\* registered: the registry holds a record for the customerId and localStorage
\* holds the customerId and the pinHash.
C5_FirstRegistrationCompletes ==
    (/\ pc.at = "done"
     /\ pc.fresh
     /\ validateCustomerId(pc.customerId).valid
     /\ validatePin(pc.pin).valid)
    => (/\ pc.customerId \in DOMAIN store
        /\ ls.customerId = pc.customerId
        /\ ls.pinHash = simpleHash(pc.pin))

\* C6: the record of a customerId C changes only in a step that handles a
\* register-pin request for C carrying an issued, unexpired token whose subject
\* is C; no record is ever removed.
C6_OverwriteOnlyByOwner ==
    [][\A c \in DOMAIN store :
          /\ c \in DOMAIN store'
          /\ store'[c] # store[c] =>
               /\ last'.op = "register-pin"
               /\ last'.status = 200
               /\ last'.customerId = c
               /\ Len(last'.hdr) >= 2
               /\ last'.hdr[2] \in issued
               /\ last'.hdr[2].sig = JWT_SECRET
               /\ last'.hdr[2].customerId = c
               /\ now < last'.hdr[2].iat + JWT_EXPIRY]_vars

C6_Witness ==
    /\ last.op = "register-pin"
    /\ last.status = 200
    /\ last.before # NoRecord
    /\ Get(store, last.customerId) # last.before

C9_BadTokenIs401 ==
    (last.op \in Protected /\ TokenIsBad) => last.status = 401

\* C10: a protected request with a token issued at t0 passes the token-validity
\* check when it arrives before t0 + 24h and is refused by it when it arrives at
\* t0 + 24h or later, whatever happened to the same token before.
C10_ExpiryAtVerificationTime ==
    (last.op \in Protected /\ TokenIsGenuine)
    => (/\ last.time < last.hdr[2].iat + JWT_EXPIRY
             => (Len(last.trace) >= 3 /\ last.status # 401)
        /\ last.time >= last.hdr[2].iat + JWT_EXPIRY
             => (/\ last.status = 403
                 /\ last.trace = <<"token-presence", "token-validity">>))

\* the token was accepted for a PIN change and is refused once the window is over
C10_Witness ==
    /\ last.op = "register-pin"
    /\ TokenIsGenuine
    /\ last.hdr[2].customerId = last.customerId
    /\ Get(store, last.customerId).salt = "s2"
    /\ last.time = last.hdr[2].iat + JWT_EXPIRY
    /\ last.status = 403

\* C11: a login in which customerId or pinHash is missing or empty is answered
\* 400 with the validation error and without a token, whatever the registry
\* holds for the customerId: the answer is the one an empty registry gives.
C11_LoginMissingFieldIs400 ==
    (/\ last.op = "login"
     /\ Falsy(last.customerId) \/ Falsy(last.pinHash))
    => (/\ last.status = 400
        /\ last.token = NoToken
        /\ last.error = "customerId and pinHash are required"
        /\ last.message = ""
        /\ LoginRoute([customerId |-> last.customerId, pinHash |-> last.pinHash],
                      EmptyStore, last.time).status = last.status)

\* an old-style login: only the customerId, of a registered customer
C11_Witness ==
    /\ last.op = "login"
    /\ ~Falsy(last.customerId)
    /\ Falsy(last.pinHash)
    /\ last.before # NoRecord
    /\ last.status = 400
    /\ \E c \in Customers : c \notin DOMAIN store

\* the stages of the pipeline in their order
PipelineOrder ==
    <<"token-presence", "token-validity", "identity-match", "handler">>

Rank(stage) == CHOOSE i \in 1..Len(PipelineOrder) : PipelineOrder[i] = stage

\* C13: a protected request passes the stages in the order token-presence,
\* token-validity, identity-match, handler and stops at the first check that
\* fails, which alone decides the answer: without token 401, with a bad token
\* the invalid-token 403 even when the request names another customer, and the
\* identity 403 only for a good token; the handler runs after all checks passed
\* and a request that stopped earlier leaves the registry alone.
C13_PipelineIsSequential ==
    (last.op \in Protected)
    => (/\ Len(last.trace) >= 1
        /\ last.trace[1] = "token-presence"
        /\ \A i \in 1..Len(last.trace) : last.trace[i] \in
              {PipelineOrder[k] : k \in 1..Len(PipelineOrder)}
        /\ \A i \in 1..(Len(last.trace) - 1) :
              Rank(last.trace[i]) < Rank(last.trace[i + 1])
        /\ last.status \in {200, 400, 401, 403}
        /\ ~HasToken =>
              /\ last.status = 401
              /\ last.error = "No authentication token provided"
              /\ last.trace = <<"token-presence">>
        /\ TokenIsBad =>
              /\ last.status = 403
              /\ last.error = "Invalid or expired token"
              /\ last.trace = <<"token-presence", "token-validity">>
        /\ (HasToken /\ ~TokenIsBad) => Len(last.trace) >= 3
        /\ (last.op \in {"register-pin", "check-pin"} /\ HasToken /\ ~TokenIsBad) =>
              /\ last.trace[3] = "identity-match"
              /\ last.hdr[2].customerId # last.customerId
                    => (last.status = 403 /\ Len(last.trace) = 3)
              /\ last.hdr[2].customerId = last.customerId
                    => last.trace = PipelineOrder
        /\ last.trace[Len(last.trace)] # "handler"
              => (/\ last.status \in {401, 403}
                  /\ Get(store, last.customerId) = last.before
                  /\ last.transactions = {}
                  /\ ~last.registered))

\* a token signed with another key, on a request that names another customer
C13_Witness ==
    /\ last.op = "register-pin"
    /\ HasToken
    /\ last.hdr[2].sig = "attacker-key"
    /\ ~Falsy(last.customerId) /\ ~Falsy(last.pinHash)
    /\ last.hdr[2].customerId # last.customerId
    /\ last.status = 403
    /\ last.error = "Invalid or expired token"

\* C15: the answer to a login does not tell whether the customerId is
\* registered: a login for a customerId without record gets the answer the same
\* login gets when the customerId has a record with another pinHash.
C15_LoginAnswerHidesRegistration ==
    (/\ last.op = "login"
     /\ ~Falsy(last.customerId) /\ ~Falsy(last.pinHash)
     /\ last.before = NoRecord)
    => \A h \in ReqHashes \ {"", last.pinHash} :
          LET r == LoginRoute(
                       [customerId |-> last.customerId, pinHash |-> last.pinHash],
                       Put(store, last.customerId, Record(h, "default_salt")),
                       last.time)
          IN  /\ r.status = last.status
              /\ r.error = last.error
              /\ r.message = last.message
              /\ r.token = last.token

\* C16: a protected request whose Authorization header is not 'Bearer <token>'
\* is answered 401 and never reaches the handler, whatever else the header holds.
C16_OnlyBearerScheme ==
    (/\ last.op \in Protected
     /\ last.hdr # <<>>
     /\ ~(Len(last.hdr) = 2 /\ last.hdr[1] = "Bearer"))
    => (/\ last.status = 401
        /\ last.trace = <<"token-presence">>)

\* C20: a register-pin request that is not answered 200 leaves the registry as
\* it was; the registry changes only in a step that handles a register-pin
\* request which passed every check and carries customerId and pinHash, and
\* then by exactly the submitted record.
C20_RejectedRegisterPinKeepsStore ==
    [][/\ (last'.op = "register-pin" /\ last'.status # 200) => store' = store
       /\ store' # store =>
            /\ last'.op = "register-pin"
            /\ last'.status = 200
            /\ last'.trace = PipelineOrder
            /\ ~Falsy(last'.customerId) /\ ~Falsy(last'.pinHash)
            /\ store' = Put(store, last'.customerId,
                            Record(last'.pinHash,
                                   IF Falsy(last'.salt) THEN "default_salt"
                                   ELSE last'.salt))]_vars

\* a request of the owner without pinHash, refused by the handler
C20_Witness ==
    /\ last.op = "register-pin"
    /\ last.status = 400
    /\ last.error = "Missing customerId or pinHash"
    /\ last.before # NoRecord
    /\ Get(store, last.customerId) = last.before

\* C12: after a register-pin request with customerId, pinHash and salt was
\* answered 200, the registry holds for that customerId exactly the submitted
\* pinHash and salt; the next login for the customerId succeeds with the new
\* pinHash and is answered 401 with any other one, the replaced one included.
C12_OverwriteTakesEffect ==
    [][(/\ last.op = "register-pin"
        /\ last.status = 200
        /\ ~Falsy(last.salt))
       => (/\ last.customerId \in DOMAIN store
           /\ store[last.customerId] = Record(last.pinHash, last.salt)
           /\ (last'.op = "login" /\ last'.customerId = last.customerId) =>
                /\ last'.pinHash = last.pinHash
                     => (/\ last'.status = 200
                         /\ last'.token # NoToken
                         /\ last'.token.customerId = last.customerId)
                /\ (~Falsy(last'.pinHash) /\ last'.pinHash # last.pinHash)
                     => (last'.status = 401 /\ last'.token = NoToken))]_vars

\* a login with the replaced hash, after the PIN was changed from H1 to H2
C12_Witness ==
    /\ last.op = "login"
    /\ last.pinHash = H1
    /\ last.status = 401
    /\ last.customerId \in DOMAIN store
    /\ store[last.customerId] = Record(H2, "s2")

\* C17: every transaction GET /api/transactions or GET /api/transaction/:txHash
\* hands to an authenticated caller X has X as customerId or as merchantId, and
\* GET /api/transaction/:txHash answers 403 for a transaction in which X is
\* neither.
C17_OnlyOwnTransactions ==
    (last.op \in {"transactions", "transaction"})
    => (/\ last.transactions # {} => (TokenIsGenuine /\ ~TokenIsBad)
        /\ \A tx \in last.transactions :
              \/ tx.customerId = last.hdr[2].customerId
              \/ tx.merchantId = last.hdr[2].customerId
        /\ (/\ last.op = "transaction"
            /\ TokenIsGenuine /\ ~TokenIsBad
            /\ \E tx \in allTransactions :
                  /\ tx.id = last.txHash
                  /\ tx.customerId # last.hdr[2].customerId
                  /\ tx.merchantId # last.hdr[2].customerId)
           => (last.status = 403 /\ last.transactions = {}))

\* the list of a caller who is payer of one transaction and merchant of
\* another, while the ledger holds a transaction of two other parties
C17_Witness ==
    /\ last.op = "transactions"
    /\ last.status = 200
    /\ Cardinality(last.transactions) = 2
    /\ \E tx \in last.transactions : tx.merchantId = last.hdr[2].customerId
    /\ \E tx \in allTransactions : tx \notin last.transactions

\* C18: when the back end has refused a request of authenticatedFetch because
\* the token it carried is invalid or expired, the token is no longer in
\* localStorage once the response has been handled, so no later request sends it.
C18_RejectedTokenIsCleared ==
    (/\ pc.at = "done"
     /\ last.op = "register-pin"
     /\ last.hdr = pc.hdr
     /\ TokenIsBad
     /\ last.status \in {401, 403})
    => (/\ ls.jwtToken = NoToken
        /\ AuthHeader(ls.jwtToken) # last.hdr)

\* C19: every request the front end sends to register-pin, verify-payment,
\* recent-payments or gemini-query carries the header 'Authorization: Bearer
\* <token>' with a token /api/login handed out.
C19_FrontEndAlwaysSendsBearer ==
    (last.op \in {"register-pin", "verify-payment", "recent-payments",
                  "gemini-query"})
    => (/\ Len(last.hdr) = 2
        /\ last.hdr[1] = "Bearer"
        /\ last.hdr[2].sig = JWT_SECRET)

\* the records the requests worked on so far have written for customer c
Written(c) ==
    { Record(inflight[i].body.pinHash, inflight[i].body.salt) :
        i \in { k \in Slots : /\ inflight[k].at = "done"
                              /\ inflight[k].status = 200
                              /\ inflight[k].body.customerId = c } }

\* C14: while two authorized register-pin requests for the same customerId are
\* worked on in any interleaving, the record of the customerId is the one it
\* had before or exactly the record one of them submitted, never the pinHash
\* of one with the salt of the other, and a login never reads anything else.
C14_NoMixedRecord ==
    /\ \A c \in DOMAIN store :
          store[c] \in Written(c) \cup {Record(H1, "default_salt")}
    /\ \A c \in Customers : Written(c) # {} => c \in DOMAIN store
    /\ (last.op = "login" /\ last.before # NoRecord) =>
          last.before \in Written(last.customerId) \cup {Record(H1, "default_salt")}

\* both requests were for the same customer and succeeded, and the record is
\* the one of the request in the first slot: the second was handled first
C14_Witness ==
    /\ \A i \in Slots : inflight[i].at = "done" /\ inflight[i].status = 200
    /\ inflight[1].body.customerId = inflight[2].body.customerId
    /\ store[inflight[1].body.customerId] = Record(H1, "s1")

\* C21: a token keeps its validity until it expires, whatever happens to the
\* record of its subject A: every token handed out passes authenticateToken
\* with A as the caller at every time before its expiry, and a register-pin or
\* check-pin request for A that carries it before its expiry passes the
\* token-validity and the identity-match check, also after A's record was
\* overwritten by register-pin.
C21_OnlyExpiryEndsValidity ==
    /\ \A tok \in issued :
          now < tok.iat + JWT_EXPIRY =>
             /\ AuthenticateToken(<<"Bearer", tok>>, now).next
             /\ AuthenticateToken(<<"Bearer", tok>>, now).customerId = tok.customerId
             /\ ProtectCustomerData(tok.customerId,
                    AuthenticateToken(<<"Bearer", tok>>, now).customerId)
    /\ (/\ last.op \in {"register-pin", "check-pin"}
        /\ TokenIsGenuine
        /\ last.hdr[2].customerId = last.customerId
        /\ last.time < last.hdr[2].iat + JWT_EXPIRY)
       => (/\ last.trace = PipelineOrder
           /\ last.status \notin {401, 403})

\* the only token handed out is A's; A's record was overwritten with it, and a
\* later check-pin request with the same token is let through
C21_Witness ==
    /\ last.op = "check-pin"
    /\ last.status = 200
    /\ issued = {last.hdr[2]}
    /\ last.hdr[2].customerId = last.customerId
    /\ last.before = Record(H2, "s2")
    /\ last.time > last.hdr[2].iat


\* C22: handleRegisterPin sends the register-pin request only after its own
\* loginUser succeeded: it goes on from the login only on a 200 with a token,
\* which it stores; when loginUser fails (refused, or the fetch rejected) the
\* invocation ends without a register-pin request, localStorage 'customerId'
\* and 'pinHash' and the registry are as before, the error starts with
\* 'Authentication failed: ' and the screen is 'register' again.
C22_RegisterOnlyAfterLogin ==
    [][/\ pc.at = "login" => pc'.at \in {"login", "loggedin", "done"}
       /\ (pc.at = "login" /\ pc'.at = "loggedin") =>
             /\ last'.op = "login"
             /\ last'.status = 200
             /\ last'.customerId = pc.customerId
             /\ last'.token # NoToken
             /\ ls'.jwtToken = last'.token
       /\ (pc.at = "login" /\ pc'.at = "done") =>
             /\ last'.op # "register-pin"
             /\ ls'.customerId = ls.customerId
             /\ ls'.pinHash = ls.pinHash
             /\ store' = store
             /\ SubSeq(app'.error, 1, 23) = "Authentication failed: "
             /\ app'.screen = "register"
       /\ (pc'.at = "register" /\ pc.at # "register") =>
             /\ pc.at = "loggedin"
             /\ pc'.customerId = pc.customerId
       /\ (last'.op = "register-pin" /\ last' # last) =>
             /\ pc.at = "register"
             /\ last'.customerId = pc.customerId]_vars

\* a registered customer typed the wrong PIN: the login was refused and the
\* invocation is over without a register-pin request
C22_Witness ==
    /\ pc.at = "done"
    /\ last.op = "login"
    /\ last.status = 401
    /\ last.before # NoRecord
    /\ last.customerId = pc.customerId
    /\ app.screen = "register"
    /\ app.error = "Authentication failed: Authentication failed"
    /\ ls.customerId = "" /\ ls.pinHash = ""


\* C23: localStorage 'customerId' and 'pinHash' change only in the step in which
\* handleRegisterPin handles a register-pin answer with status 'success', and
\* then to the customerId and pinHash of that request; a pinHash in localStorage
\* always comes with a customerId, and the registry holds that pinHash for it.
C23_StoredCredentialsWereAccepted ==
    [][/\ (ls'.customerId # ls.customerId \/ ls'.pinHash # ls.pinHash) =>
             /\ pc.at = "register" /\ pc'.at = "done"
             /\ last'.op = "register-pin"
             /\ last'.status = 200
             /\ last'.customerId = pc.customerId
             /\ ls'.customerId = last'.customerId
             /\ ls'.pinHash = last'.pinHash
       /\ Falsy(ls'.pinHash) <=> Falsy(ls'.customerId)
       /\ ~Falsy(ls'.pinHash) =>
             /\ ls'.customerId \in DOMAIN store'
             /\ store'[ls'.customerId].pinHash = ls'.pinHash]_vars

\* the browser registered alice first and bob after her
C23_Witness ==
    /\ pc.at = "done"
    /\ last.op = "register-pin"
    /\ last.status = 200
    /\ ls.customerId = "bob"
    /\ ls.pinHash = H1
    /\ store["bob"].salt = "demo_salt_0"
    /\ store["alice"].salt = "demo_salt_0"


\* C24: submitPayment sends the verify-payment request only when simpleHash of
\* the PIN entered equals the pinHash in localStorage; when the two differ, and
\* so when no pinHash is stored, no request is sent and the screen becomes
\* 'error' with the wrong-PIN message.
C24_PreCheckGuardsVerifyPayment ==
    [][/\ (pc'.at = "verify" /\ pc.at # "verify") =>
             /\ Shown("pin")
             /\ pc'.pin = app.pin
             /\ simpleHash(pc'.pin) = ls.pinHash
       /\ (Shown("pin") /\ app'.screen \in {"error", "processing"}) =>
             IF simpleHash(app.pin) = ls.pinHash
             THEN /\ pc'.at = "verify"
                  /\ app'.screen = "processing"
             ELSE /\ pc'.at = "done"
                  /\ app'.screen = "error"
                  /\ app'.error = WrongPinMessage
                  /\ last' = last
       /\ pc'.at = "verify" => simpleHash(pc'.pin) = ls'.pinHash
       /\ (last'.op = "verify-payment" /\ last' # last) =>
             /\ pc.at = "verify"
             /\ last'.pinHash = simpleHash(pc.pin)
             /\ last'.pinHash = ls.pinHash]_vars

\* a valid PIN entered on the PIN screen of a browser that holds no pinHash
C24_Witness ==
    /\ pc.at = "done"
    /\ validatePin(pc.pin).valid
    /\ ls.pinHash = ""
    /\ app.screen = "error"
    /\ app.error = WrongPinMessage


\* C25: validatePin answers valid exactly for a non-empty string of the digits
\* 0-9 of length 4 to 6, and otherwise gives the error of the first rule that
\* fails in the order required, digits only, minimum length, maximum length.
C25_ValidatePinRules ==
    (app.fn = "validatePin" /\ app.out.applied)
    => LET p == app.input
           nonEmpty == Len(p) > 0
           digits == \A i \in 1..Len(p) : IsDigit(SubSeq(p, i, i))
       IN  /\ app.out.valid <=> (nonEmpty /\ digits /\ Len(p) >= 4 /\ Len(p) <= 6)
           /\ app.out.valid => app.out.error = ""
           /\ ~nonEmpty => app.out.error = "PIN is required"
           /\ (nonEmpty /\ ~digits) => app.out.error = "PIN must contain only digits"
           /\ (nonEmpty /\ digits /\ Len(p) < 4)
                 => app.out.error = "PIN must be at least 4 digits"
           /\ (nonEmpty /\ digits /\ Len(p) > 6)
                 => app.out.error = "PIN cannot exceed 6 digits"

\* an input that breaks the digits rule and a length rule
C25_Witness ==
    /\ app.fn = "validatePin"
    /\ app.out.applied
    /\ app.input = "1a"
    /\ app.out.error = "PIN must contain only digits"


\* the amount strings the claim describes: digits, then optionally a point
\* and at most two more digits, worth more than 0 and at most MaxAmount
AmountAccepted(s) ==
    \E w \in 1..Len(s) :
       LET whole == SubSeq(s, 1, w)
           rest == SubSeq(s, w + 1, Len(s))
           frac == SubSeq(rest, 2, Len(rest))
           sig == Significant(whole)
           hundredths == IF Len(frac) = 0 THEN 0
                         ELSE IF Len(frac) = 1 THEN 10 * ToNat(frac)
                         ELSE ToNat(frac)
       IN  /\ \A i \in 1..Len(whole) : IsDigit(SubSeq(whole, i, i))
           /\ \/ Len(rest) = 0
              \/ /\ SubSeq(rest, 1, 1) = "."
                 /\ Len(frac) <= 2
                 /\ \A i \in 1..Len(frac) : IsDigit(SubSeq(frac, i, i))
           /\ Len(sig) <= 6
           /\ 100 * ToNat(sig) + hundredths >= 1
           /\ 100 * ToNat(sig) + hundredths <= 100 * MaxAmount

\* C26: validateAmount answers valid exactly for a digit string with an
\* optional fraction of at most 2 digits whose value is more than 0 and at
\* most 100000.
C26_ValidateAmountRules ==
    (app.fn = "validateAmount" /\ app.out.applied)
    => /\ app.out.valid <=> AmountAccepted(app.input)
       /\ app.out.valid <=> app.out.error = ""

\* an amount one hundredth over the limit is refused
C26_Witness ==
    /\ app.fn = "validateAmount"
    /\ app.out.applied
    /\ app.input = "100000.01"
    /\ ~app.out.valid
    /\ app.out.error = "Amount cannot exceed 100,000"


\* one step of the loop on a signed 32-bit value: 31 * h + c wrapped to 32
\* bits, computed on 16-bit halves
WrapStep(h, c) ==
    LET lowSum == 31 * (h % 65536) + c
        highU == (31 * (h \div 65536) + (lowSum \div 65536)) % 65536
        high == IF highU >= 32768 THEN highU - 65536 ELSE highU
    IN  high * 65536 + (lowSum % 65536)

RECURSIVE WrapLoop(_, _, _)
WrapLoop(s, i, h) ==
    IF i > Len(s) THEN h
    ELSE WrapLoop(s, i + 1, WrapStep(h, CharCode(SubSeq(s, i, i))))

RECURSIVE HexOf(_)
HexOf(n) ==
    IF n < 16 THEN HexDigit(n) ELSE HexOf(n \div 16) \o HexDigit(n % 16)

\* the hexadecimal digits of the absolute value of a signed 32-bit value
HexOfAbs(h) ==
    IF h = -2147483647 - 1 THEN "80000000"
    ELSE IF h < 0 THEN HexOf(-h) ELSE HexOf(h)

RECURSIVE Zeros(_)
Zeros(n) == IF n = 0 THEN "" ELSE "0" \o Zeros(n - 1)

\* C30: simpleHash(s) is "0x" followed by the hexadecimal digits of |h|
\* left-padded with zeros to 64 digits, h being folded over the characters of
\* s as 31 * h + code wrapped to a signed 32-bit integer; the result always
\* has 66 characters, and the copies of App.js and MerchantPageEnhanced give
\* the same result.
C30_SimpleHashFormat ==
    (app.fn = "simpleHash" /\ app.out.applied)
    => LET hex == HexOfAbs(WrapLoop(app.input, 1, 0))
       IN  /\ app.out.hash = "0x" \o Zeros(64 - Len(hex)) \o hex
           /\ Len(app.out.hash) = 66
           /\ app.out.mpeHash = app.out.hash

\* an input whose running value has wrapped to a negative number
C30_Witness ==
    /\ app.fn = "simpleHash"
    /\ app.out.applied
    /\ WrapLoop(app.input, 1, 0) < 0
    /\ Len(app.out.hash) = 66


\* C29: whenever submitPayment sends a verify-payment request, the customerId
\* of the request body is the customerId localStorage holds together with the
\* pinHash the pre-check compared with, whatever was typed on the register or
\* sign-in screen and however the PIN screen was reached.
C29_PaymentNamesStoredCustomer ==
    /\ pc.at = "verify" => pc.customerId = ls.customerId
    /\ last.op = "verify-payment" => last.customerId = ls.customerId


\* C28: after loginUser of handleRegisterPin has succeeded for customer A, the
\* token the following authenticatedFetch attaches is the one issued for A,
\* also when another page on the same localStorage logs in in between.
C28_RegisterCarriesOwnToken ==
    pc.at = "register"
    => (/\ Len(pc.hdr) = 2
        /\ pc.hdr[1] = "Bearer"
        /\ pc.hdr[2].customerId = pc.customerId)


\* C27: once handleRegisterPin or handlePINSubmit has set the screen to
\* 'processing', and every fetch on its way resolves or rejects, the screen
\* eventually is one of 'register', 'pin', 'success' and 'error': no way the
\* handlers complete leaves it on 'processing'.
C27_ProcessingEnds ==
    (app.screen = "processing")
       ~> (app.screen \in {"register", "pin", "success", "error"})

\* a payment went through 'processing' and ended on the success screen
C27_Witness ==
    /\ last.op = "verify-payment"
    /\ pc.at = "done"
    /\ app.screen = "success"
    /\ app.response = "Payment verified"

=============================================================================
